---- MODULE Spec2Model ----
(***************************************************************************)
(* ChangeWLD backend: order store, order lifecycle and admin gate.         *)
(*                                                                         *)
(* Time is counted in minutes since the epoch.  A JavaScript Date is its   *)
(* epoch value; its ISO string is that value (ISO strings of equal width   *)
(* compare like the instants they denote).                                 *)
(***************************************************************************)
EXTENDS Integers, Sequences, FiniteSets, TLC

VARIABLES
    now,        \* wall clock of the server process (epoch minutes)
    tzOffset,   \* Date.getTimezoneOffset() of the server process
    orders,     \* MongoDB collection Order: id -> document
    counter,    \* MongoDB document Counter{key:"order"}.value
    req,        \* in-flight POST /api/orders requests (MongoDB variant)
    adm,        \* in-flight PUT /api/orders/:id/estado requests
    watcher,    \* the checkPendingWldReceipts run
    fileStore,  \* orders.json of the file-store variant: {orders, lastId}
    acked,      \* ids of the orders the file-store variant has answered with
    detect,     \* the autoDetectWLD_Real runs
    processedTxs, \* transaction hashes already matched (file-store variant)
    getr,       \* in-flight GET /api/orders/:id requests
    rateNow,    \* Date.now() as the rate service sees it (clock ticks)
    cache,      \* _cache of rateService.js: {data, updatedAt}
    calls,      \* the getCachedRate calls: requests and refresher runs
    nextFire,   \* when the setInterval timer of the refresher fires next
    cachedRate, \* cachedRate of the file-store GET /api/rate
    lastFetchTime, \* lastFetchTime of the file-store GET /api/rate
    frate,      \* the in-flight file-store GET /api/rate request
    calc,       \* the last application of a pure function: {fn, in, out}
    session,    \* the last POST /api/admin/login and its response
    issued,     \* the tokens login has issued
    authz,      \* the last admin check of a request bearing an issued token
    walletAuth, \* POST /api/wallet-auth/complete: last response, tokens issued
    listing,    \* the last request to list all orders and its response
    spread,     \* SPREAD of the process, in percent (process.env.SPREAD)
    chain       \* the receipt of each transaction once it is on the chain

mongoVars == <<orders, counter, req, adm, watcher>>
fileVars == <<fileStore, acked, detect, processedTxs>>
readVars == <<getr>>
rateVars == <<rateNow, cache, calls, nextFire>>
legVars == <<cachedRate, lastFetchTime, frate>>
calcVars == <<calc>>
authVars == <<session, issued, authz, walletAuth, listing>>
confVars == <<spread, chain>>
auxVars == <<legVars, calcVars, authVars, confVars>>
vars == <<now, tzOffset, mongoVars, fileVars, readVars, rateVars, auxVars>>

-----------------------------------------------------------------------------
(* Bounds *)

MaxId      == 4      \* ids the counter may hand out
MaxTicks   == 3      \* steps the clock takes when requests run in turn
MaxTicksC  == 1      \* steps the clock takes when requests run concurrently
MaxHist    == 2      \* status changes written to the store, all orders
MaxFileOrders == 3   \* orders the file-store variant creates
MaxIdL     == 1      \* orders created while their lifecycle is followed
MaxMilli == 60        \* largest small upstream price (thousandths of a peso)
MaxRateTime == 3     \* clock ticks the rate service is followed for

Procs      == {1, 2}     \* concurrent POST /api/orders requests
Admins     == {1}        \* concurrent PUT estado requests

-----------------------------------------------------------------------------
(* Program constants *)

MAX_ORDERS_PER_NULLIFIER_PER_DAY == 3
COLOMBIA_UTC_OFFSET_MIN == (-5) * 60
MinPerDay == 24 * 60
AmountScale == 10                    \* amounts are held in tenths of a WLD
MIN_WLD == 1 * AmountScale           \* montoWldNumber < 1
ADMIN_JWT_SECRET == "secret"
SPREAD_PERCENT == 25            \* SPREAD = 0.25
CentsPerPeso == 100             \* toFixed(2)

\* a bank added to the list
bancosPermitidos_Extra == {"Nequi", "Llave Bre-B", "UnknownBank"}

bancosPermitidos == {"Nequi", "Llave Bre-B"}
\* a sixth value let through
validos_Extra ==
    {"pendiente", "enviada", "recibida_wld", "pagada", "rechazada", "cancelada"}

validos == {"pendiente", "enviada", "recibida_wld", "pagada", "rechazada"}

NULL == "null"
NoOrder == [id |-> 0]
NoResp == [status |-> 0, orden |-> NoOrder]

-----------------------------------------------------------------------------
(* Clock *)

\* The clock visits, each day, UTC midnight (19:00 in Colombia, the day
\* before), 05:00 UTC (midnight in Colombia) and 12:00 UTC.
DayInstants == <<0, 5 * 60, 12 * 60>>
Instant(k) == (1 + k \div 3) * MinPerDay + DayInstants[1 + (k % 3)]
StartTime == Instant(0)
ServerZones == {0, 5 * 60}

\* the clock moves to its next instant, up to the last-th
Tick(last) ==
    /\ \E k \in 1..last :
          /\ now = Instant(k - 1)
          /\ now' = Instant(k)
    /\ UNCHANGED <<auxVars, tzOffset, mongoVars, fileVars, readVars, rateVars>>

\* getColombiaNow(): the Date whose local fields show the Colombian wall clock
getColombiaNow(t, tz) ==
    LET utcMs == t + tz
    IN  utcMs + COLOMBIA_UTC_OFFSET_MIN

\* setUTCHours in place of setHours: midnight of the UTC day
setHoursMidnight_UTC(d, tz) == (d \div MinPerDay) * MinPerDay

\* new Date(d).setHours(0,0,0,0): local midnight of d, in the server's zone
setHoursMidnight(d, tz) ==
    LET local == d - tz
    IN  (local \div MinPerDay) * MinPerDay + tz

\* days since 1970-01-01 (a Thursday) of a Date, and Date.getDay() of it
EpochDay(date) == date \div MinPerDay
getDay(date) == (EpochDay(date) + 4) % 7

\* calcularInventarioFecha(nowColombia) on a server whose zone is tz:
\* getDay, getHours, getMinutes and setDate work on the local fields of the
\* Date, toISOString().slice(0, 10) gives its UTC day
calcularInventarioFecha(nowColombia, tz) ==
    LET d == nowColombia
        local == d - tz
        day == getDay(local)
        hour == (local % MinPerDay) \div 60
        minute == local % 60
        toISODate(date) == EpochDay(date)
        plusDays(k) == d + k * MinPerDay
    IN  IF day = 0 THEN toISODate(plusDays(1))
        ELSE IF day >= 1 /\ day <= 4
          THEN IF hour > 17 \/ (hour = 17 /\ minute >= 0)
                 THEN toISODate(plusDays(1))
                 ELSE toISODate(d)
        ELSE IF day = 5
          THEN IF hour > 17 \/ (hour = 17 /\ minute >= 0)
                 THEN toISODate(plusDays(1))
                 ELSE toISODate(d)
        ELSE IF day = 6
          THEN IF hour > 15 \/ (hour = 15 /\ minute >= 0)
                 THEN toISODate(plusDays(2))
                 ELSE toISODate(d)
        ELSE toISODate(d)

-----------------------------------------------------------------------------
(* POST /api/orders, MongoDB variant *)

\* values of req.body.verified: a boolean or a string
JsTrue == [k |-> "bool", v |-> "true"]
JsFalse == [k |-> "bool", v |-> "false"]
JsString(str) == [k |-> "str", v |-> str]

\* !x is false
Truthy(x) ==
    CASE x.k = "bool" -> x.v = "true"
      [] x.k = "str"  -> x.v # ""
      [] x.k = "num"  -> x.n # 0
      [] OTHER        -> FALSE

\* Boolean(x)
Boolean(x) == Truthy(x)

\* Number(v) of a body field: a finite number, Infinity, or NaN (k = "nan")
Number(v) ==
    CASE v.k = "num" -> [k |-> "num", n |-> v.n]
      [] v.k = "inf" -> [k |-> "inf", n |-> 0]
      [] OTHER       -> [k |-> "nan", n |-> 0]    \* undefined, other strings

\* a / b rounded to the nearest integer, a >= 0 and b > 0
RoundDiv(a, b) == (2 * a + b) \div (2 * b)

\* the margin taken as a plain share of montoCOP
gananciaCopOf_PlainShare(montoCOP, s) ==
    LET mCop == Number(montoCOP)
    IN  IF mCop.k # "num" \/ s <= 0 \/ s >= 100 THEN 0
        ELSE RoundDiv(mCop.n * CentsPerPeso * s, 100)

\* gananciaCop for a SPREAD of s percent:
\* Number(((mCop * s) / (1 - s)).toFixed(2)), in centavos
gananciaCopOf(montoCOP, s) ==
    LET mCop == Number(montoCOP)
    IN  IF mCop.k # "num" \/ s <= 0 \/ s >= 100 THEN 0
        ELSE RoundDiv(mCop.n * CentsPerPeso * s, 100 - s)

\* gananciaCop under the SPREAD of the process
gananciaCop(montoCOP) == gananciaCopOf(montoCOP, spread)

\* Number(montoWLD || 0) on a request value
NumberOrZero(v) ==
    CASE v.k = "undef" -> [fin |-> TRUE,  n |-> 0]
      [] v.k = "num"   -> [fin |-> TRUE,  n |-> v.n]
      [] v.k = "inf"   -> [fin |-> FALSE, n |-> 0]
      [] OTHER         -> [fin |-> FALSE, n |-> 0]     \* non-numeric string: NaN

\* the creada_en filter left out of the query
ordersTodayOf_AllTime(store, nullifierStr, inicioHoyISO) ==
    {i \in DOMAIN store : store[i].nullifier = nullifierStr}

\* Order.find({nullifier, creada_en: {$gte: inicioHoyISO}}).lean()
ordersTodayOf(store, nullifierStr, inicioHoyISO) ==
    {i \in DOMAIN store :
        /\ store[i].nullifier = nullifierStr
        /\ store[i].creada_en >= inicioHoyISO}

\* the counter read and returned, the increment not written back
getNextOrderId_NotPersisted(c) == [value |-> c + 1, counter |-> c]

\* getNextOrderId(): findOneAndUpdate({key:"order"}, {$inc:{value:1}}, {new, upsert})
getNextOrderId(c) == [value |-> c + 1, counter |-> c + 1]

IdleReq == [pc |-> "idle", body |-> [k |-> "none"], ahora |-> 0,
            newId |-> 0, resp |-> NoResp]

Respond(p, r, st, o) ==
    req' = [req EXCEPT ![p] = [r EXCEPT !.pc = "done",
                                        !.resp = [status |-> st, orden |-> o]]]

\* request received: synchronous validation up to the first await
CreateStart(p, body) ==
    /\ req[p].pc \in {"idle", "done"}
    /\ LET r == [IdleReq EXCEPT !.body = body]
           montoWldNumber == NumberOrZero(body.montoWLD)
       IN  IF body.banco \notin bancosPermitidos
             THEN Respond(p, r, 400, NoOrder)
           ELSE IF ~Truthy(body.verified) \/ body.nullifier = ""
             THEN Respond(p, r, 400, NoOrder)
           ELSE IF ~montoWldNumber.fin \/ montoWldNumber.n < MIN_WLD
             THEN Respond(p, r, 400, NoOrder)
           ELSE req' = [req EXCEPT ![p] =
                          [r EXCEPT !.pc = "find",
                                    !.ahora = getColombiaNow(now, tzOffset)]]
    /\ UNCHANGED <<auxVars, now, tzOffset, orders, counter, adm, watcher, fileVars, readVars, rateVars>>

\* the id taken from the counter before the quota is checked
CreateCount_IdFirst(p) ==
    /\ req[p].pc = "find"
    /\ counter < MaxId
    /\ LET r == req[p]
           inicioHoyISO == setHoursMidnight(r.ahora, tzOffset)
           ordersToday == ordersTodayOf(orders, r.body.nullifier, inicioHoyISO)
           doc == getNextOrderId(counter)
       IN  /\ counter' = doc.counter
           /\ IF Cardinality(ordersToday) >= MAX_ORDERS_PER_NULLIFIER_PER_DAY
                 THEN Respond(p, r, 429, NoOrder)
                 ELSE req' = [req EXCEPT ![p].pc = "create",
                                         ![p].newId = doc.value]
    /\ UNCHANGED <<auxVars, now, tzOffset, orders, adm, watcher, fileVars, readVars, rateVars>>

\* await Order.find(...) returns; quota check; getNextOrderId() is issued
CreateCount(p) ==
    /\ req[p].pc = "find"
    /\ LET r == req[p]
           inicioHoyISO == setHoursMidnight(r.ahora, tzOffset)
           ordersToday == ordersTodayOf(orders, r.body.nullifier, inicioHoyISO)
       IN  IF Cardinality(ordersToday) >= MAX_ORDERS_PER_NULLIFIER_PER_DAY
             THEN Respond(p, r, 429, NoOrder)
             ELSE req' = [req EXCEPT ![p].pc = "nextId"]
    /\ UNCHANGED <<auxVars, now, tzOffset, orders, counter, adm, watcher, fileVars, readVars, rateVars>>

\* the counter document is incremented in the store and its value returned
CreateNextId(p) ==
    /\ req[p].pc = "nextId"
    /\ counter < MaxId
    /\ LET doc == getNextOrderId(counter)
       IN  /\ counter' = doc.counter
           /\ req' = [req EXCEPT ![p].pc = "create", ![p].newId = doc.value]
    /\ UNCHANGED <<auxVars, now, tzOffset, orders, adm, watcher, fileVars, readVars, rateVars>>

\* the initial history entry left out
NuevaOrden_NoHistory(r) ==
    [id             |-> r.newId,
     banco          |-> r.body.banco,
     titular        |-> r.body.titular,
     numero         |-> r.body.numero,
     montoWLD       |-> NumberOrZero(r.body.montoWLD).n,
     montoCOP       |-> Number(r.body.montoCOP),
     ganancia_cop   |-> gananciaCop(r.body.montoCOP),
     verified       |-> Boolean(r.body.verified),
     nullifier      |-> r.body.nullifier,
     estado         |-> "pendiente",
     creada_en      |-> r.ahora,
     actualizada_en |-> r.ahora,
     wld_tx_id      |-> IF r.body.wld_tx_id = "" THEN NULL ELSE r.body.wld_tx_id,
     inventario_fecha |-> calcularInventarioFecha(r.ahora, tzOffset),
     status_history |-> << >>]

\* the document Order.create() is given
NuevaOrden(r) ==
    [id             |-> r.newId,
     banco          |-> r.body.banco,
     titular        |-> r.body.titular,
     numero         |-> r.body.numero,
     montoWLD       |-> NumberOrZero(r.body.montoWLD).n,
     montoCOP       |-> Number(r.body.montoCOP),
     ganancia_cop   |-> gananciaCop(r.body.montoCOP),
     verified       |-> Boolean(r.body.verified),
     nullifier      |-> r.body.nullifier,
     estado         |-> "pendiente",
     creada_en      |-> r.ahora,
     actualizada_en |-> r.ahora,
     wld_tx_id      |-> IF r.body.wld_tx_id = "" THEN NULL ELSE r.body.wld_tx_id,
     inventario_fecha |-> calcularInventarioFecha(r.ahora, tzOffset),
     status_history |-> << [at |-> r.ahora, to |-> "pendiente"] >>]

\* Order.create(): the document is validated (NaN for a Number path is a
\* cast error) and inserted (unique index on id)
CreateInsert(p) ==
    /\ req[p].pc = "create"
    /\ LET r == req[p]
           nueva == NuevaOrden(r)
       IN  IF nueva.montoCOP.k = "nan" \/ r.newId \in DOMAIN orders
             THEN /\ Respond(p, r, 500, NoOrder)
                  /\ UNCHANGED orders
             ELSE /\ orders' = [i \in DOMAIN orders \cup {r.newId} |->
                                   IF i = r.newId THEN nueva ELSE orders[i]]
                  /\ Respond(p, r, 200, nueva)
    /\ UNCHANGED <<auxVars, now, tzOffset, counter, adm, watcher, fileVars, readVars, rateVars>>

-----------------------------------------------------------------------------
(* Admin gate *)

\* the expiry of the token not looked at
jwtVerify_NoExpiry(token, secret, t) ==
    IF ~token.wellFormed THEN [ok |-> FALSE, role |-> ""]
    ELSE IF token.key # secret THEN [ok |-> FALSE, role |-> ""]
    ELSE [ok |-> TRUE, role |-> token.role]

\* jwt.verify(token, secret): the payload, or a thrown error
jwtVerify(token, secret, t) ==
    IF ~token.wellFormed THEN [ok |-> FALSE, role |-> ""]
    ELSE IF token.key # secret THEN [ok |-> FALSE, role |-> ""]
    ELSE IF t >= token.exp THEN [ok |-> FALSE, role |-> ""]
    ELSE [ok |-> TRUE, role |-> token.role]

\* the role claim not looked at
isAdminAuthenticated_AnyRole(hdr, t) ==
    IF hdr.scheme # "Bearer" THEN FALSE
    ELSE jwtVerify(hdr.token, ADMIN_JWT_SECRET, t).ok

\* isAdminAuthenticated(req) at time t
isAdminAuthenticated(hdr, t) ==
    IF hdr.scheme # "Bearer" THEN FALSE
    ELSE LET payload == jwtVerify(hdr.token, ADMIN_JWT_SECRET, t)
         IN  payload.ok /\ payload.role = "admin"

-----------------------------------------------------------------------------
(* PUT /api/orders/:id/estado *)

\* history entries appended to the stored orders since their creation
RECURSIVE Appended(_, _)
Appended(store, ids) ==
    IF ids = {} THEN 0
    ELSE LET i == CHOOSE x \in ids : TRUE
         IN  (Len(store[i].status_history) - 1) + Appended(store, ids \ {i})

MayAppend == Appended(orders, DOMAIN orders) < MaxHist

IdleAdm == [pc |-> "idle", hdr |-> [scheme |-> "none"], estado |-> "",
            id |-> 0, loaded |-> NoOrder, at |-> 0, resp |-> NoResp]

RespondAdm(a, r, st, o) ==
    adm' = [adm EXCEPT ![a] = [r EXCEPT !.pc = "done",
                                        !.loaded = NoOrder,
                                        !.at = 0,
                                        !.resp = [status |-> st, orden |-> o]]]

\* request received: authorization and validation of the target value
SetStatusStart(a, hdr, estado, id) ==
    /\ adm[a].pc \in {"idle", "done"}
    /\ LET r == [IdleAdm EXCEPT !.hdr = hdr, !.estado = estado, !.id = id]
       IN  IF ~isAdminAuthenticated(hdr, now)
             THEN RespondAdm(a, r, 403, NoOrder)
           ELSE IF estado \notin validos
             THEN RespondAdm(a, r, 400, NoOrder)
           ELSE adm' = [adm EXCEPT ![a] = [r EXCEPT !.pc = "findOne"]]
    /\ UNCHANGED <<auxVars, now, tzOffset, orders, counter, req, watcher, fileVars, readVars, rateVars>>

\* a reference made up for an order that is paid without one
Modified_Placeholder(loaded, estado, t) ==
    [loaded EXCEPT !.estado = estado,
                   !.actualizada_en = t,
                   !.wld_tx_id = IF estado = "pagada" /\ @ = NULL
                                   THEN "placeholder" ELSE @,
                   !.status_history = Append(@, [at |-> t, to |-> estado])]

\* the document as the handler leaves it in memory before save()
Modified(loaded, estado, t) ==
    [loaded EXCEPT !.estado = estado,
                   !.actualizada_en = t,
                   !.status_history = Append(@, [at |-> t, to |-> estado])]

\* await Order.findOne({id}) returns; the document is changed in memory
SetStatusFind(a) ==
    /\ adm[a].pc = "findOne"
    /\ LET r == adm[a]
       IN  IF r.id \notin DOMAIN orders
             THEN RespondAdm(a, r, 404, NoOrder)
           ELSE /\ MayAppend
                /\ adm' = [adm EXCEPT ![a] =
                             [r EXCEPT !.pc = "save",
                                       !.loaded = orders[r.id],
                                       !.at = now]]
    /\ UNCHANGED <<auxVars, now, tzOffset, orders, counter, req, watcher, fileVars, readVars, rateVars>>

\* the whole in-memory history written over the stored one
SaveDelta_SetHistory(stored, loaded, doc) ==
    [stored EXCEPT
        !.estado = IF doc.estado # loaded.estado THEN doc.estado ELSE @,
        !.actualizada_en =
            IF doc.actualizada_en # loaded.actualizada_en
              THEN doc.actualizada_en ELSE @,
        !.status_history = doc.status_history]

\* the new estado left out of what is written
SaveDelta_NoEstado(stored, loaded, doc) ==
    [stored EXCEPT
        !.actualizada_en = doc.actualizada_en,
        !.status_history = Append(@, doc.status_history[Len(doc.status_history)])]

\* what orden.save() writes: $set of the paths whose value was changed,
\* $push of the new history entry
SaveDelta(stored, loaded, doc) ==
    [stored EXCEPT
        !.estado = IF doc.estado # loaded.estado THEN doc.estado ELSE @,
        !.actualizada_en =
            IF doc.actualizada_en # loaded.actualizada_en
              THEN doc.actualizada_en ELSE @,
        !.status_history = Append(@, doc.status_history[Len(doc.status_history)])]

\* await orden.save() returns; the response carries the in-memory document
SetStatusSave(a) ==
    /\ adm[a].pc = "save"
    /\ LET r == adm[a]
           doc == Modified(r.loaded, r.estado, r.at)
       IN  /\ orders' = [orders EXCEPT ![r.id] = SaveDelta(@, r.loaded, doc)]
           /\ RespondAdm(a, r, 200, doc)
    /\ UNCHANGED <<auxVars, now, tzOffset, counter, req, watcher, fileVars, readVars, rateVars>>

-----------------------------------------------------------------------------
(* checkPendingWldReceipts *)

WLD_TOKEN_ADDRESS == "0xwld"
WALLET_DESTINO == "0xdest"
UnitsPerWLD == 100        \* on-chain units of one WLD

\* String.prototype.toLowerCase on the strings that occur
toLowerCase(str) ==
    CASE str = "N1" -> "n1"
      [] str = "N2" -> "n2"
      [] str = "0xWLD" -> "0xwld"
      [] str = "0xDEST" -> "0xdest"
      [] OTHER -> str

\* toTokenUnitsBigInt(String(montoWLD)): integer part and decimal digits
toTokenUnitsBigInt(monto) ==
    LET intPart == monto \div AmountScale
        decPart == (monto % AmountScale) * (UnitsPerWLD \div AmountScale)
    IN  intPart * UnitsPerWLD + decPart

\* no receipt asked for yet
NoReceipt == [kind |-> "none", status |-> 0, logs |-> << >>]

IdleWatcher == [pc |-> "idle", pendientes |-> << >>, idx |-> 0, at |-> 0,
                receipt |-> NoReceipt]

\* Order.find({estado: {$in: [...]}, wld_tx_id: {$ne: null}}).sort({id: 1}).lean()
RECURSIVE SortedById(_, _)
SortedById(store, ids) ==
    IF ids = {} THEN << >>
    ELSE LET m == CHOOSE i \in ids : \A j \in ids : i <= j
         IN  <<store[m]>> \o SortedById(store, ids \ {m})

\* the fields of a candidate the run goes on to read
Candidate(o) ==
    [id |-> o.id, wld_tx_id |-> o.wld_tx_id, nullifier |-> o.nullifier,
     montoWLD |-> o.montoWLD]

Pendientes(store) ==
    LET found == SortedById(store, {i \in DOMAIN store :
                     /\ store[i].estado \in {"pendiente", "enviada"}
                     /\ store[i].wld_tx_id # NULL})
    IN  [k \in 1..Len(found) |-> Candidate(found[k])]

\* a run starts: the candidate orders are read
WatchFind ==
    /\ watcher.pc = "idle"
    /\ LET pendientes == Pendientes(orders)
       IN  IF Len(pendientes) = 0
             THEN UNCHANGED watcher
             ELSE watcher' = [pc |-> "receipt", pendientes |-> pendientes,
                              idx |-> 1, at |-> 0, receipt |-> NoReceipt]
    /\ UNCHANGED <<auxVars, now, tzOffset, orders, counter, req, adm, fileVars, readVars, rateVars>>

\* the events of WLD_ABI (wldAbi.js): Transfer and no other
AbiEvents == {"Transfer"}

\* wldInterface.parseLog(log) of ethers 6 (ethers.Interface,
\* ethers.JsonRpcProvider): a description of the event, null for a log whose
\* event is not in the ABI, an exception for data that cannot be decoded
parseLog(log) ==
    IF log.name = "Undecodable" THEN "throw"
    ELSE IF log.name \in AbiEvents THEN "parsed"
    ELSE "null"

\* the test of a parsed Transfer with the comparison of the value left out
LogMatches_AnyValue(log, ord) ==
    /\ toLowerCase(log.to) = toLowerCase(WALLET_DESTINO)
    /\ LET expectedFrom == toLowerCase(ord.nullifier)
       IN  expectedFrom = "" \/ toLowerCase(log.from) = expectedFrom

\* to === expectedDestino && valueBig === expectedValue, and
\* !expectedFrom || from === expectedFrom
LogMatches(log, ord) ==
    /\ toLowerCase(log.to) = toLowerCase(WALLET_DESTINO)
    /\ log.value = toTokenUnitsBigInt(ord.montoWLD)
    /\ LET expectedFrom == toLowerCase(ord.nullifier)
       IN  expectedFrom = "" \/ toLowerCase(log.from) = expectedFrom

\* for (const log of logs), from the k-th log on: "match" at the first log
\* that passes, "nomatch" at the end of the logs, "throw" when parsed is null
\* and parsed.name is read (the exception leaves the loop and is caught by
\* the try of the order)
RECURSIVE ScanLogs(_, _, _)
ScanLogs(logs, k, ord) ==
    IF k > Len(logs) THEN "nomatch"
    ELSE LET log == logs[k]
         IN  IF log.address = ""
                  \/ toLowerCase(log.address) # toLowerCase(WLD_TOKEN_ADDRESS)
               THEN ScanLogs(logs, k + 1, ord)
             ELSE IF parseLog(log) = "throw"
               THEN ScanLogs(logs, k + 1, ord)
             ELSE IF parseLog(log) = "null"
               THEN "throw"
             ELSE IF log.name # "Transfer"
               THEN ScanLogs(logs, k + 1, ord)
             ELSE IF LogMatches(log, ord)
               THEN "match"
             ELSE ScanLogs(logs, k + 1, ord)

\* the receipt is there, it succeeded, and the loop ended with match = true
ReceiptMatches(receipt, ord) ==
    /\ receipt.kind = "receipt"
    /\ receipt.status = 1
    /\ ScanLogs(receipt.logs, 1, ord) = "match"

\* move on to the next candidate, or end the run
WatchAdvance(w) ==
    IF w.idx < Len(w.pendientes)
      THEN [w EXCEPT !.pc = "receipt", !.idx = @ + 1, !.at = 0,
                     !.receipt = NoReceipt]
      ELSE IdleWatcher

\* await getTransactionReceipt(txHash) returns (or throws)
WatchReceipt(receipt) ==
    /\ watcher.pc = "receipt"
    /\ LET ord == watcher.pendientes[watcher.idx]
       IN  IF ReceiptMatches(receipt, ord)
             THEN watcher' = [watcher EXCEPT !.pc = "update", !.at = now,
                                             !.receipt = receipt]
             ELSE watcher' = WatchAdvance(watcher)
    /\ UNCHANGED <<auxVars, now, tzOffset, orders, counter, req, adm, fileVars, readVars, rateVars>>

\* the watcher writing a status that is not its own
UpdateOneRecibida_Paid(stored, nowIso) ==
    [stored EXCEPT
        !.estado = "pagada",
        !.actualizada_en = nowIso,
        !.status_history = Append(@, [at |-> nowIso, to |-> "recibida_wld"])]

\* the watcher's $set writing the creation time as well
UpdateOneRecibida_Recreated(stored, nowIso) ==
    [stored EXCEPT
        !.estado = "recibida_wld",
        !.creada_en = nowIso,
        !.actualizada_en = nowIso,
        !.status_history = Append(@, [at |-> nowIso, to |-> "recibida_wld"])]

\* Order.updateOne({id}, {$set: {estado, actualizada_en}, $push: {...}})
UpdateOneRecibida(stored, nowIso) ==
    [stored EXCEPT
        !.estado = "recibida_wld",
        !.actualizada_en = nowIso,
        !.status_history = Append(@, [at |-> nowIso, to |-> "recibida_wld"])]

\* await Order.updateOne(...) returns
WatchUpdate ==
    /\ watcher.pc = "update"
    /\ LET ord == watcher.pendientes[watcher.idx]
       IN  /\ MayAppend
           /\ orders' = [orders EXCEPT
                           ![ord.id] = UpdateOneRecibida(@, watcher.at)]
    /\ watcher' = WatchAdvance(watcher)
    /\ UNCHANGED <<auxVars, now, tzOffset, counter, req, adm, fileVars, readVars, rateVars>>

-----------------------------------------------------------------------------
(* Inputs of the lifecycle operations *)

Token(wf, key, exp, role) ==
    [wellFormed |-> wf, key |-> key, exp |-> exp, role |-> role]

TokenLife == 24 * 60          \* expiresIn: "24h"

\* a token issued by login at the start
AdminToken == Token(TRUE, ADMIN_JWT_SECRET, StartTime + TokenLife, "admin")

GoodHeaders == {[scheme |-> "Bearer", token |-> AdminToken]}

BadHeaders ==
    {[scheme |-> "none", token |-> AdminToken],
     [scheme |-> "Basic", token |-> AdminToken],
     [scheme |-> "Bearer", token |-> [AdminToken EXCEPT !.wellFormed = FALSE]],
     [scheme |-> "Bearer", token |-> [AdminToken EXCEPT !.key = "other"]],
     [scheme |-> "Bearer", token |-> [AdminToken EXCEPT !.exp = StartTime]],
     [scheme |-> "Bearer", token |-> [AdminToken EXCEPT !.exp = StartTime - 1]],
     [scheme |-> "Bearer", token |-> [AdminToken EXCEPT !.role = "wallet"]]}

Targets == validos \cup {"cancelada"}

\* req.params.id: the first order, and a second id that may not be stored
OrderIds == {1, 2}

\* every target for the first order and a valid one for the second id with
\* a good header; a valid target for the first order with each bad header,
\* and a request with everything wrong
AdminInputs ==
    (GoodHeaders \X Targets \X {1})
    \cup (GoodHeaders \X {"pagada"} \X {2})
    \cup (BadHeaders \X {"pagada"} \X {1})
    \cup ({[scheme |-> "none", token |-> AdminToken]} \X {"cancelada"} \X {2})

Log(address, name, from, to, value) ==
    [address |-> address, name |-> name, from |-> from, to |-> to,
     value |-> value]

\* the Transfer log that confirms an order of 1 WLD of identity n1
GoodLog == Log("0xWLD", "Transfer", "N1", "0xDEST", 100)

\* a log of the token whose event the ABI does not hold, and one of the
\* token whose data cannot be decoded
ApprovalLog == [GoodLog EXCEPT !.name = "Approval"]
UndecodableLog == [GoodLog EXCEPT !.name = "Undecodable"]

\* the same log with one field wrong
BadLogs ==
    {[GoodLog EXCEPT !.address = ""], [GoodLog EXCEPT !.address = "0xother"],
     [GoodLog EXCEPT !.name = "Approval"], [GoodLog EXCEPT !.from = "n2"],
     [GoodLog EXCEPT !.to = "0xother"], [GoodLog EXCEPT !.value = 150]}

\* what getTransactionReceipt may answer: nothing yet, a thrown error, a
\* failed transaction, or a successful one with its logs
Receipts ==
    {[kind |-> "null", status |-> 0, logs |-> << >>],
     [kind |-> "throw", status |-> 0, logs |-> << >>],
     [kind |-> "receipt", status |-> 0, logs |-> <<GoodLog>>],
     [kind |-> "receipt", status |-> 1, logs |-> << >>],
     [kind |-> "receipt", status |-> 1, logs |-> <<GoodLog>>]}
    \cup {[kind |-> "receipt", status |-> 1, logs |-> <<l>>] : l \in BadLogs}
    \cup {[kind |-> "receipt", status |-> 1, logs |-> <<l, GoodLog>>] :
            l \in {ApprovalLog, UndecodableLog}}

-----------------------------------------------------------------------------
(* GET /api/orders/:id *)

IdleGet == [pc |-> "idle", id |-> 0, resp |-> NoResp]

\* request received: Order.findOne({id}).lean() is issued
GetStart(id) ==
    /\ getr.pc \in {"idle", "done"}
    /\ getr' = [IdleGet EXCEPT !.pc = "findOne", !.id = id]
    /\ UNCHANGED <<auxVars, now, tzOffset, mongoVars, fileVars, rateVars>>

\* the query without its filter: the first document of the collection
GetFind_NoFilter ==
    /\ getr.pc = "findOne"
    /\ getr' = [getr EXCEPT
                  !.pc = "done",
                  !.resp = IF DOMAIN orders # {}
                             THEN [status |-> 200,
                                   orden |-> orders[CHOOSE i \in DOMAIN orders :
                                                \A j \in DOMAIN orders : i <= j]]
                             ELSE [status |-> 404, orden |-> NoOrder]]
    /\ UNCHANGED <<auxVars, now, tzOffset, mongoVars, fileVars, rateVars>>

\* JSON.stringify of a number in a response: Infinity is written as null
JsonNumber(v) == IF v.k = "num" THEN v ELSE [k |-> "null", n |-> 0]

\* the query returns: 404, or the stored document as the response
GetFind ==
    /\ getr.pc = "findOne"
    /\ getr' = [getr EXCEPT
                  !.pc = "done",
                  !.resp = IF getr.id \in DOMAIN orders
                             THEN [status |-> 200, orden |-> orders[getr.id]]
                             ELSE [status |-> 404, orden |-> NoOrder]]
    /\ UNCHANGED <<auxVars, now, tzOffset, mongoVars, fileVars, rateVars>>

-----------------------------------------------------------------------------
(* services/rateService.js: getCachedRate, its refresher, GET /api/rate *)

\* _cache.ttlMs (60 s) in clock ticks of 30 s
TtlTicks == 2

\* GET /api/rate requests, and the run of the refresher: one run is
\* followed at a time, each ending before the next is due
RateClients == {"c1", "c2"}
RefresherRuns == {"r1"}
RateCallers == RateClients \cup RefresherRuns

\* _cache.data = null
NoData == [fecha |-> -1, wld_cop_bruto |-> 0, wld_cop_usuario |-> 0]

\* seen is the _cache.updatedAt of the snapshot a call returned, kept to
\* tell the TTL window the snapshot belongs to
NoResult == [kind |-> "none", data |-> NoData, cache |-> FALSE,
             stale |-> FALSE, seen |-> 0]

\* up: what the upstream answered; http: the status of GET /api/rate
IdleCall == [pc |-> "idle", force |-> FALSE, now |-> 0, up |-> "none",
             http |-> 0, result |-> NoResult]

\* answers of the World App prices endpoint: an HTTP error, a body without
\* WLD, a WLD/COP that is not a number, or a price (thousandths of a peso)
PriceAnswers ==
    {[ok |-> FALSE, wld |-> FALSE, cop |-> [k |-> "nan", n |-> 0]],
     [ok |-> TRUE,  wld |-> FALSE, cop |-> [k |-> "nan", n |-> 0]],
     [ok |-> TRUE,  wld |-> TRUE,  cop |-> [k |-> "nan", n |-> 0]],
     [ok |-> TRUE,  wld |-> TRUE,  cop |-> [k |-> "num", n |-> 4000005]],
     [ok |-> TRUE,  wld |-> TRUE,  cop |-> [k |-> "num", n |-> 4100000]]}

\* fetchWorldAppPrices(): the WLD/COP price, or a thrown error
fetchWorldAppPrices(answer) ==
    IF ~answer.ok \/ ~answer.wld \/ answer.cop.k # "num"
      THEN [thrown |-> TRUE, wldCop |-> 0]
      ELSE [thrown |-> FALSE, wldCop |-> answer.cop.n]

\* the payload with the user's rate left equal to the gross rate
PayloadOf_NoSpread(wldCop, s, t) ==
    [fecha           |-> t,
     wld_cop_bruto   |-> RoundDiv(wldCop, 10),
     wld_cop_usuario |-> RoundDiv(wldCop, 10)]

\* the payload of computeRateNow() for a SPREAD of s percent: wldCop in
\* thousandths of a peso, the amounts in centavos (toFixed(2))
PayloadOf(wldCop, s, t) ==
    [fecha           |-> t,
     wld_cop_bruto   |-> RoundDiv(wldCop, 10),
     wld_cop_usuario |-> RoundDiv(wldCop * (100 - s), 1000)]

\* the payload under the configured SPREAD
Payload(wldCop, t) == PayloadOf(wldCop, SPREAD_PERCENT, t)

\* the status GET /api/rate answers with; a refresher run only logs
HttpOf(c, kind) ==
    IF c \in RateClients THEN (IF kind = "error" THEN 500 ELSE 200) ELSE 0

\* !force && _cache.data && !isStale
CacheHit(force, t) ==
    LET isStale == t - cache.updatedAt > TtlTicks
    IN  ~force /\ cache.data # NoData /\ ~isStale

\* getCachedRate({force}) up to its return or its await
BeginCall(c, force) ==
    /\ calls[c].pc \in {"idle", "done"}
    /\ LET r == [IdleCall EXCEPT !.force = force, !.now = rateNow]
       IN  IF CacheHit(force, rateNow)
             THEN calls' = [calls EXCEPT ![c] =
                     IF c \in RefresherRuns THEN IdleCall ELSE
                     [r EXCEPT !.pc = "done",
                               !.http = HttpOf(c, "ok"),
                               !.result = [kind |-> "ok", data |-> cache.data,
                                           cache |-> TRUE, stale |-> FALSE,
                                           seen |-> cache.updatedAt]]]
             ELSE calls' = [calls EXCEPT ![c] = [r EXCEPT !.pc = "fetch"]]
    /\ UNCHANGED cache

\* GET /api/rate: getCachedRate()
GetRateStart(c) ==
    /\ BeginCall(c, FALSE)
    /\ UNCHANGED <<auxVars, now, tzOffset, mongoVars, fileVars, readVars, rateNow,
                   nextFire>>

\* the timer calling getCachedRate() without force
RefresherFire_NotForced(r) ==
    /\ rateNow >= nextFire
    /\ nextFire' = nextFire + TtlTicks
    /\ BeginCall(r, FALSE)
    /\ UNCHANGED <<auxVars, now, tzOffset, mongoVars, fileVars, readVars,
                   rateNow>>

\* the setInterval callback: getCachedRate({force: true})
RefresherFire(r) ==
    /\ rateNow >= nextFire
    /\ nextFire' = nextFire + TtlTicks
    /\ BeginCall(r, TRUE)
    /\ UNCHANGED <<auxVars, now, tzOffset, mongoVars, fileVars, readVars, rateNow>>

\* the failed refresh answered with an error even when a snapshot is cached
Settle_NoStale(c, answer) ==
    LET got == fetchWorldAppPrices(answer)
        fresh == Payload(got.wldCop, rateNow)
    IN  IF ~got.thrown
          THEN [cache |-> [data |-> fresh, updatedAt |-> calls[c].now],
                result |-> [kind |-> "ok", data |-> fresh, cache |-> FALSE,
                            stale |-> FALSE, seen |-> calls[c].now]]
          ELSE [cache |-> cache,
                result |-> [NoResult EXCEPT !.kind = "error"]]

\* the cache emptied when a refresh fails
Settle_DropCache(c, answer) ==
    LET got == fetchWorldAppPrices(answer)
        fresh == Payload(got.wldCop, rateNow)
    IN  IF ~got.thrown
          THEN [cache |-> [data |-> fresh, updatedAt |-> calls[c].now],
                result |-> [kind |-> "ok", data |-> fresh, cache |-> FALSE,
                            stale |-> FALSE, seen |-> calls[c].now]]
        ELSE IF cache.data # NoData
          THEN [cache |-> [data |-> NoData, updatedAt |-> 0],
                result |-> [kind |-> "ok", data |-> cache.data, cache |-> TRUE,
                            stale |-> TRUE, seen |-> cache.updatedAt]]
        ELSE [cache |-> cache,
              result |-> [NoResult EXCEPT !.kind = "error"]]

\* getCachedRate after its await: the try block and its catch
Settle(c, answer) ==
    LET got == fetchWorldAppPrices(answer)
        fresh == Payload(got.wldCop, rateNow)
    IN  IF ~got.thrown
          THEN [cache |-> [data |-> fresh, updatedAt |-> calls[c].now],
                result |-> [kind |-> "ok", data |-> fresh, cache |-> FALSE,
                            stale |-> FALSE, seen |-> calls[c].now]]
        ELSE IF cache.data # NoData
          THEN [cache |-> cache,
                result |-> [kind |-> "ok", data |-> cache.data, cache |-> TRUE,
                            stale |-> TRUE, seen |-> cache.updatedAt]]
        ELSE [cache |-> cache,
              result |-> [NoResult EXCEPT !.kind = "error"]]

\* the upstream answers a call that awaits it; what a refresher run
\* returns is dropped by its caller
GetRateFetched(c, answer) ==
    /\ calls[c].pc = "fetch"
    /\ LET out == Settle(c, answer)
       IN  /\ cache' = out.cache
           /\ calls' = [calls EXCEPT ![c] =
                  IF c \in RefresherRuns THEN IdleCall
                  ELSE [@ EXCEPT !.pc = "done",
                                 !.up = IF fetchWorldAppPrices(answer).thrown
                                          THEN "fail" ELSE "ok",
                                 !.http = HttpOf(c, out.result.kind),
                                 !.result = out.result]]
    /\ UNCHANGED <<auxVars, now, tzOffset, mongoVars, fileVars, readVars, rateNow,
                   nextFire>>

\* time passes; a timer that is due fires before it does
RateTick ==
    /\ rateNow < MaxRateTime
    /\ rateNow < nextFire
    /\ rateNow' = rateNow + 1
    /\ UNCHANGED <<auxVars, now, tzOffset, mongoVars, fileVars, readVars, cache, calls,
                   nextFire>>

\* startRateRefresher() has run: its first forced call awaits the upstream
\* and the timer is set
InitRate ==
    /\ rateNow = 0
    /\ cache = [data |-> NoData, updatedAt |-> 0]
    /\ calls = [c \in RateCallers |->
                  IF c = "r1" THEN [IdleCall EXCEPT !.pc = "fetch",
                                                    !.force = TRUE]
                  ELSE IdleCall]
    /\ nextFire = TtlTicks

NextRate ==
    \/ \E c \in RateClients : GetRateStart(c)
    \/ \E r \in RefresherRuns : RefresherFire(r)
    \/ \E c \in RateCallers, answer \in PriceAnswers : GetRateFetched(c, answer)
    \/ RateTick

-----------------------------------------------------------------------------
(* POST /api/admin/login and the admin check of the tokens it issues *)

OPERATOR_PIN == "4321"

NoToken == Token(FALSE, "", 0, "")
IdleSession == [pin |-> [k |-> "none"], at |-> 0, status |-> 0,
                token |-> NoToken]
IdleAuthz == [token |-> NoToken, t |-> 0, ok |-> FALSE]

\* values of req.body.pin: strings, numbers, or none
Pins ==
    {[k |-> "str", v |-> "4321"], [k |-> "str", v |-> "0000"],
     [k |-> "str", v |-> ""], [k |-> "undef"],
     [k |-> "num", n |-> 4321], [k |-> "num", n |-> 0]}

\* String(x)
StringOf(x) ==
    CASE x.k = "str" -> x.v
      [] x.k = "num" -> ToString(x.n)
      [] OTHER       -> "undefined"

\* every PIN that is not empty let in
PinRefused_OnlyEmpty(pin) == ~Truthy(pin)

\* !pin || String(pin) !== String(OPERATOR_PIN)
PinRefused(pin) == ~Truthy(pin) \/ StringOf(pin) # OPERATOR_PIN

\* createAdminToken() at time t: {role: "admin"}, expiresIn: "24h"
createAdminToken(t) == Token(TRUE, ADMIN_JWT_SECRET, t + TokenLife, "admin")

\* POST /api/admin/login with req.body.pin = pin
LoginPost(pin) ==
    /\ IF PinRefused(pin)
         THEN /\ session' = [pin |-> pin, at |-> now, status |-> 401,
                             token |-> NoToken]
              /\ UNCHANGED issued
         ELSE /\ session' = [pin |-> pin, at |-> now, status |-> 200,
                             token |-> createAdminToken(now)]
              /\ issued' = issued \cup {createAdminToken(now)}
    /\ UNCHANGED <<now, tzOffset, mongoVars, fileVars, readVars, rateVars,
                   legVars, calcVars, confVars, authz, walletAuth, listing>>

\* a request with Authorization: Bearer <an issued token> reaches
\* isAdminAuthenticated
AuthorizeIssued(token) ==
    /\ token \in issued
    /\ authz' = [token |-> token, t |-> now,
                 ok |-> isAdminAuthenticated(
                            [scheme |-> "Bearer", token |-> token], now)]
    /\ UNCHANGED <<now, tzOffset, mongoVars, fileVars, readVars, rateVars,
                   legVars, calcVars, confVars, session, issued, walletAuth,
                   listing>>

-----------------------------------------------------------------------------
(* POST /api/wallet-auth/complete and the listing of all orders *)

IdleWalletAuth == [status |-> 0, token |-> NoToken, issued |-> {}]
IdleListing == [token |-> NoToken, status |-> 0, orders |-> << >>]

\* req.body and what verifySiweMessage answers for it: the three fields
\* present, signedNonce the HMAC of nonce, finalPayloadJson parsing, the
\* SIWE message valid, the address it carries
GoodWalletBody ==
    [fields |-> TRUE, signed |-> TRUE, json |-> TRUE, isValid |-> TRUE,
     address |-> "0xabc"]

WalletBodies ==
    {GoodWalletBody,
     [GoodWalletBody EXCEPT !.fields = FALSE],
     [GoodWalletBody EXCEPT !.signed = FALSE],
     [GoodWalletBody EXCEPT !.json = FALSE],
     [GoodWalletBody EXCEPT !.isValid = FALSE],
     [GoodWalletBody EXCEPT !.address = ""]}

\* the session token signed with the role of an admin
createWalletToken_AdminRole(t) ==
    Token(TRUE, ADMIN_JWT_SECRET, t + TokenLife, "admin")

\* jwt.sign({role: "wallet", walletAddress}, ADMIN_JWT_SECRET, {expiresIn: "24h"})
createWalletToken(t) == Token(TRUE, ADMIN_JWT_SECRET, t + TokenLife, "wallet")

\* the status the handler answers with
WalletAuthStatus(body) ==
    IF ~body.fields THEN 400
    ELSE IF ~body.signed THEN 401
    ELSE IF ~body.json THEN 400
    ELSE IF ~body.isValid \/ body.address = "" THEN 401
    ELSE 200

\* POST /api/wallet-auth/complete
WalletAuthComplete(body) ==
    /\ LET st == WalletAuthStatus(body)
       IN  walletAuth' =
              IF st = 200
                THEN [status |-> 200, token |-> createWalletToken(now),
                      issued |-> walletAuth.issued
                                    \cup {createWalletToken(now)}]
                ELSE [walletAuth EXCEPT !.status = st, !.token = NoToken]
    /\ UNCHANGED <<now, tzOffset, mongoVars, fileVars, readVars, rateVars,
                   legVars, calcVars, confVars, session, issued, authz,
                   listing>>

\* POST or GET /api/orders-admin with Authorization: Bearer <token>:
\* Order.find().sort({id: -1}) does not wait on anything the model changes
ListOrders(token) ==
    /\ listing' =
          IF ~isAdminAuthenticated([scheme |-> "Bearer", token |-> token], now)
            THEN [token |-> token, status |-> 403, orders |-> << >>]
            ELSE LET asc == SortedById(orders, DOMAIN orders)
                 IN  [token |-> token, status |-> 200,
                      orders |-> [k \in 1..Len(asc) |-> asc[Len(asc) + 1 - k]]]
    /\ UNCHANGED <<now, tzOffset, mongoVars, fileVars, readVars, rateVars,
                   legVars, calcVars, confVars, session, issued, authz,
                   walletAuth>>

InitAuth ==
    /\ session = IdleSession
    /\ issued = {}
    /\ authz = IdleAuthz
    /\ walletAuth = IdleWalletAuth
    /\ listing = IdleListing

-----------------------------------------------------------------------------
(* GET /api/rate of the file-store variant: two price legs with fallbacks *)

\* the fallback constants of the two legs: 0.76 USD (in cents), 3700 COP
FALLBACK_WLD_USD == 76
FALLBACK_USD_COP == 3700

\* cachedRate = null
NoRate == [wld_usd |-> [k |-> "none", n |-> 0],
           usd_cop |-> [k |-> "none", n |-> 0],
           wld_cop_bruto |-> [k |-> "none", n |-> 0],
           wld_cop_usuario |-> [k |-> "none", n |-> 0]]

\* no answer received yet
NoAnswer == [k |-> "none"]

\* binance, fx: what the two upstreams answered this request
IdleFileRate == [pc |-> "idle", now |-> 0, binance |-> NoAnswer,
                 fx |-> NoAnswer,
                 wldUsd |-> [k |-> "none", n |-> 0],
                 usdCop |-> [k |-> "none", n |-> 0],
                 status |-> 0, cached |-> FALSE, body |-> NoRate]

\* what Binance answers: no answer that parses (fetch or r.json() rejects),
\* or a JSON object whose price is a number, absent, or not numeric
BinanceAnswers ==
    {[k |-> "throw", price |-> [k |-> "undef", n |-> 0]],
     [k |-> "json",  price |-> [k |-> "undef", n |-> 0]],
     [k |-> "json",  price |-> [k |-> "str", n |-> 0]],
     [k |-> "json",  price |-> [k |-> "num", n |-> 80]]}

\* what the FX service answers: no answer that parses, a JSON object
\* without rates, or one whose rates.COP is a number or absent
FxAnswers ==
    {[k |-> "throw",   cop |-> [k |-> "undef", n |-> 0]],
     [k |-> "norates", cop |-> [k |-> "undef", n |-> 0]],
     [k |-> "json",    cop |-> [k |-> "undef", n |-> 0]],
     [k |-> "json",    cop |-> [k |-> "num", n |-> 4000]]}

\* parseFloat(v)
parseFloat(v) ==
    IF v.k = "num" THEN [k |-> "num", n |-> v.n] ELSE [k |-> "nan", n |-> 0]

\* a * b of two JS numbers
JsTimes(a, b) ==
    IF a.k = "num" /\ b.k = "num" THEN [k |-> "num", n |-> a.n * b.n]
    ELSE [k |-> "nan", n |-> 0]

\* the Binance leg: try { wldUsd = parseFloat(j.price) } catch { 0.76 }
BinanceLeg(answer) ==
    IF answer.k = "throw" THEN [k |-> "num", n |-> FALLBACK_WLD_USD]
    ELSE parseFloat(answer.price)

\* the FX leg: try { usdCop = Number(j.rates.COP) } catch { 3700 }
FxLeg(answer) ==
    IF answer.k \in {"throw", "norates"}
      THEN [k |-> "num", n |-> FALLBACK_USD_COP]
      ELSE Number(answer.cop)

\* cachedRate as the handler builds it: wld_usd in USD cents, usd_cop in
\* pesos, wld_cop_bruto and wld_cop_usuario in hundredths of a centavo
FileRate(wldUsd, usdCop) ==
    LET bruto == JsTimes(wldUsd, usdCop)
    IN  [wld_usd |-> wldUsd,
         usd_cop |-> usdCop,
         wld_cop_bruto |-> JsTimes(bruto, [k |-> "num", n |-> 100]),
         wld_cop_usuario |->
             JsTimes(bruto, [k |-> "num", n |-> 100 - SPREAD_PERCENT])]

\* request received: answered from cachedRate, or the Binance call is made
FileRateStart ==
    /\ frate.pc \in {"idle", "done"}
    /\ IF cachedRate # NoRate /\ rateNow - lastFetchTime < TtlTicks
         THEN frate' = [IdleFileRate EXCEPT !.pc = "done", !.now = rateNow,
                                            !.status = 200, !.cached = TRUE,
                                            !.body = cachedRate]
         ELSE frate' = [IdleFileRate EXCEPT !.pc = "binance", !.now = rateNow]
    /\ UNCHANGED <<confVars, calcVars, authVars, now, tzOffset, mongoVars, fileVars, readVars,
                   rateVars, cachedRate, lastFetchTime>>

\* the Binance leg ends and the FX call is made
FileRateBinance(answer) ==
    /\ frate.pc = "binance"
    /\ frate' = [frate EXCEPT !.pc = "fx", !.binance = answer,
                              !.wldUsd = BinanceLeg(answer)]
    /\ UNCHANGED <<confVars, calcVars, authVars, now, tzOffset, mongoVars, fileVars, readVars,
                   rateVars, cachedRate, lastFetchTime>>

\* the FX leg ends: cachedRate is stored and sent
FileRateFx(answer) ==
    /\ frate.pc = "fx"
    /\ LET usdCop == FxLeg(answer)
           fresh == FileRate(frate.wldUsd, usdCop)
       IN  /\ cachedRate' = fresh
           /\ lastFetchTime' = frate.now
           /\ frate' = [frate EXCEPT !.pc = "done", !.fx = answer,
                                     !.usdCop = usdCop, !.status = 200,
                                     !.body = fresh]
    /\ UNCHANGED <<confVars, calcVars, authVars, now, tzOffset, mongoVars, fileVars, readVars,
                   rateVars>>

\* time passes for the file-store server
FileRateTick ==
    /\ rateNow < MaxRateTime
    /\ rateNow' = rateNow + 1
    /\ UNCHANGED <<auxVars, now, tzOffset, mongoVars, fileVars, readVars,
                   cache, calls, nextFire>>

InitLeg ==
    /\ cachedRate = NoRate
    /\ lastFetchTime = 0
    /\ frate = IdleFileRate

NextFileRate ==
    \/ FileRateStart
    \/ \E answer \in BinanceAnswers : FileRateBinance(answer)
    \/ \E answer \in FxAnswers : FileRateFx(answer)
    \/ FileRateTick

-----------------------------------------------------------------------------
(* File-store variant: POST /api/orders and autoDetectWLD_Real *)

\* setInterval(autoDetectWLD_Real, 5000) starts a run every 5 seconds whether
\* or not the one before has ended: two runs are followed
DetectRuns == {"d1", "d2"}

IdleDetect == [pc |-> "idle", store |-> [orders |-> << >>, lastId |-> 0]]

\* readStore(): the parsed content of orders.json
readStore(file) == file

\* the order built by the handler, with id = ++store.lastId
NuevaFile(store, body, t) ==
    [id             |-> store.lastId + 1,
     banco          |-> body.banco,
     montoWLD       |-> body.montoWLD,
     estado         |-> "pendiente",
     tx_hash        |-> NULL,
     creada_en      |-> t,
     actualizada_en |-> t,
     status_history |-> << [at |-> t, to |-> "pendiente"] >>]

\* POST /api/orders: the handler has no await and runs in one piece
FileCreate(body) ==
    /\ Len(acked) < MaxFileOrders
    /\ IF body.banco \notin bancosPermitidos
         THEN UNCHANGED <<fileStore, acked>>
         ELSE LET store == readStore(fileStore)
                  nueva == NuevaFile(store, body, now)
              IN  /\ fileStore' = [orders |-> <<nueva>> \o store.orders,
                                   lastId |-> nueva.id]
                  /\ acked' = Append(acked, nueva.id)
    /\ UNCHANGED <<auxVars, now, tzOffset, mongoVars, detect, processedTxs, readVars, rateVars>>

\* autoDetectWLD_Real up to its await: read the store, look for pending orders
DetectRead(d) ==
    /\ detect[d].pc = "idle"
    /\ LET store == readStore(fileStore)
           pending == {i \in 1..Len(store.orders) :
                          store.orders[i].estado = "pendiente"}
       IN  IF pending = {}
             THEN UNCHANGED detect
             ELSE detect' = [detect EXCEPT
                               ![d] = [pc |-> "transfers", store |-> store]]
    /\ UNCHANGED <<auxVars, now, tzOffset, mongoVars, fileStore, acked, processedTxs, readVars, rateVars>>

\* transfers.find() without the test of processedTxs
FindMatch_IgnoreProcessed(transfers, processed, order) ==
    LET ok == {k \in 1..Len(transfers) :
                  transfers[k].amount = order.montoWLD}
    IN  IF ok = {} THEN 0 ELSE CHOOSE k \in ok : \A j \in ok : k <= j

\* transfers.find(): first transfer not yet processed with the order's amount
FindMatch(transfers, processed, order) ==
    LET ok == {k \in 1..Len(transfers) :
                  /\ transfers[k].transaction_hash \notin processed
                  /\ transfers[k].amount = order.montoWLD}
    IN  IF ok = {} THEN 0 ELSE CHOOSE k \in ok : \A j \in ok : k <= j

\* for (let order of pending): the orders of the snapshot from the i-th on
RECURSIVE DetectLoop(_, _, _, _, _)
DetectLoop(ords, i, transfers, processed, t) ==
    IF i > Len(ords) THEN [orders |-> ords, processed |-> processed]
    ELSE LET order == ords[i]
             k == IF order.estado = "pendiente"
                    THEN FindMatch(transfers, processed, order) ELSE 0
         IN  IF k = 0 THEN DetectLoop(ords, i + 1, transfers, processed, t)
             ELSE LET match == transfers[k]
                      upd == [order EXCEPT
                                !.estado = "recibida_wld",
                                !.tx_hash = match.transaction_hash,
                                !.actualizada_en = t,
                                !.status_history =
                                    Append(@, [at |-> t, to |-> "recibida_wld"])]
                  IN  DetectLoop([ords EXCEPT ![i] = upd], i + 1, transfers,
                                 processed \cup {match.transaction_hash}, t)

\* autoDetectWLD_Real after its await: match the transfers, write the store
DetectWrite(d, transfers) ==
    /\ detect[d].pc = "transfers"
    /\ IF Len(transfers) = 0
         THEN UNCHANGED <<fileStore, processedTxs>>
         ELSE LET out == DetectLoop(detect[d].store.orders, 1, transfers,
                                    processedTxs, now)
              IN  /\ fileStore' = [detect[d].store EXCEPT
                                      !.orders = out.orders]
                  /\ processedTxs' = out.processed
    /\ detect' = [detect EXCEPT ![d] = IdleDetect]
    /\ UNCHANGED <<auxVars, now, tzOffset, mongoVars, acked, readVars, rateVars>>

FileBodies == [banco : {"Nequi", "UnknownBank"}, montoWLD : {10, 15}]

\* what getIncomingWLDTransfers() may return: incoming WLD transfers
IncomingTransfers ==
    LET t1 == [transaction_hash |-> "tx1", amount |-> 10]
        t2 == [transaction_hash |-> "tx2", amount |-> 15]
    IN  {<< >>, <<t1>>, <<t2>>, <<t1, t2>>, <<t2, t1>>}

-----------------------------------------------------------------------------
(* Request bodies *)

ValidBody(n) ==
    [banco |-> "Nequi", titular |-> "Ana", numero |-> "3001234567",
     verified |-> JsTrue, nullifier |-> n,
     montoWLD |-> [k |-> "num", n |-> 10],
     montoCOP |-> [k |-> "num", n |-> 1000], wld_tx_id |-> ""]

\* one body per validation rule that fails it
InvalidBodies ==
    {[ValidBody("n1") EXCEPT !.banco = "UnknownBank"],
     [ValidBody("n1") EXCEPT !.verified = JsFalse],
     [ValidBody("n1") EXCEPT !.nullifier = ""]}
    \cup {[ValidBody("n1") EXCEPT !.montoWLD = m] :
             m \in {[k |-> "num", n |-> 5], [k |-> "str", n |-> 0],
                    [k |-> "undef", n |-> 0]}}

\* a body whose verified is the string "false", which !verified lets through
StringVerifiedBody == [ValidBody("n2") EXCEPT !.verified = JsString("false")]

\* a body without montoCOP: it passes every check of the handler
NoCopBody == [ValidBody("n1") EXCEPT !.montoCOP = [k |-> "undef", n |-> 0]]

CreateBodies ==
    {ValidBody("n1"), StringVerifiedBody, NoCopBody} \cup InvalidBodies
CreateBodiesC == {ValidBody(n) : n \in {"n1", "n2"}}
LifeBodies ==
    {[ValidBody("n1") EXCEPT !.wld_tx_id = tx] : tx \in {"", "tx1"}}

\* bodies of the orders that are read back: amounts in COP that are a
\* number, missing, or Infinity, each with a transaction to watch
ReadBodies ==
    {[ValidBody("n1") EXCEPT !.wld_tx_id = "tx1", !.montoCOP = m] :
        m \in {[k |-> "num", n |-> 1000], [k |-> "undef", n |-> 0],
               [k |-> "inf", n |-> 0]}}

\* set-status requests of an authorized admin, forward and backward
ReadAdminInputs == GoodHeaders \X {"pagada", "pendiente"} \X OrderIds

\* the receipt that confirms the transfer
ReadReceipts == {[kind |-> "receipt", status |-> 1, logs |-> <<GoodLog>>]}

-----------------------------------------------------------------------------
\* no function applied yet
NoCalc == [fn |-> "none", in |-> [k |-> "none"], out |-> [k |-> "none"]]

InitFile ==
    /\ fileStore = [orders |-> << >>, lastId |-> 0]
    /\ acked = << >>
    /\ detect = [d \in DetectRuns |-> IdleDetect]
    /\ processedTxs = {}

\* a chain whose receipts are given by each answer as it comes
NoChain == << >>

InitProcess ==
    /\ now = StartTime
    /\ orders = << >>
    /\ counter = 0
    /\ req = [p \in Procs |-> IdleReq]
    /\ adm = [a \in Admins |-> IdleAdm]
    /\ watcher = IdleWatcher
    /\ getr = IdleGet
    /\ InitRate
    /\ InitLeg
    /\ calc = NoCalc
    /\ InitAuth
    /\ InitFile

InitStore == InitProcess /\ chain = NoChain

CreateStep(p) == CreateCount(p) \/ CreateNextId(p) \/ CreateInsert(p)

-----------------------------------------------------------------------------
(* Concurrent order creation: every request may be suspended at each await *)

Init == InitStore /\ tzOffset \in ServerZones /\ spread = SPREAD_PERCENT

Next ==
    \/ \E p \in Procs, body \in CreateBodiesC : CreateStart(p, body)
    \/ \E p \in Procs : CreateStep(p)
    \/ Tick(MaxTicksC)

Spec == Init /\ [][Next]_vars

-----------------------------------------------------------------------------
(* Order creation with requests issued one after another *)

\* a single client that waits for each response before its next request
SeqProcs == {1}

NextSeq ==
    \/ \E p \in SeqProcs, body \in CreateBodies : CreateStart(p, body)
    \/ \E p \in SeqProcs : CreateStep(p)
    \/ Tick(MaxTicks)

SpecSeq == Init /\ [][NextSeq]_vars

-----------------------------------------------------------------------------
(* File-store variant: order creation and the 5-second detection task *)

\* one detection run at a time
NextFile ==
    \/ \E body \in FileBodies : FileCreate(body)
    \/ DetectRead("d1")
    \/ \E transfers \in IncomingTransfers : DetectWrite("d1", transfers)
    \/ Tick(MaxTicksC)

SpecFile == Init /\ [][NextFile]_vars

-----------------------------------------------------------------------------
(* Order lifecycle: creation, admin set-status and the receipt watcher *)

InitLife == InitStore /\ tzOffset = 0 /\ spread = SPREAD_PERCENT

NextLife ==
    \/ \E p \in SeqProcs, body \in LifeBodies :
          counter < MaxIdL /\ CreateStart(p, body)
    \/ \E p \in SeqProcs : CreateStep(p)
    \/ \E a \in Admins, in \in AdminInputs :
          SetStatusStart(a, in[1], in[2], in[3])
    \/ \E a \in Admins : SetStatusFind(a) \/ SetStatusSave(a)
    \/ WatchFind
    \/ \E receipt \in Receipts : WatchReceipt(receipt)
    \/ WatchUpdate

SpecLife == InitLife /\ [][NextLife]_vars

-----------------------------------------------------------------------------
(* File-store variant: detection runs that overlap *)

\* detection runs that overlap, with fewer orders
MaxOverlapOrders == 2

NextFileOverlap ==
    \/ \E body \in FileBodies :
          Len(acked) < MaxOverlapOrders /\ FileCreate(body)
    \/ \E d \in DetectRuns : DetectRead(d)
    \/ \E d \in DetectRuns, transfers \in IncomingTransfers :
          DetectWrite(d, transfers)
    \/ Tick(MaxTicksC)

SpecFileOverlap == InitLife /\ [][NextFileOverlap]_vars

-----------------------------------------------------------------------------
(* Orders read back: creation, status changes and GET /api/orders/:id *)

NextRead ==
    \/ \E p \in SeqProcs, body \in ReadBodies :
          counter + 1 \in OrderIds /\ CreateStart(p, body)
    \/ \E p \in SeqProcs : CreateStep(p)
    \/ \E a \in Admins, in \in ReadAdminInputs :
          SetStatusStart(a, in[1], in[2], in[3])
    \/ \E a \in Admins : SetStatusFind(a) \/ SetStatusSave(a)
    \/ WatchFind
    \/ \E receipt \in ReadReceipts : WatchReceipt(receipt)
    \/ WatchUpdate
    \/ \E id \in OrderIds : GetStart(id)
    \/ GetFind

SpecRead == InitLife /\ [][NextRead]_vars

-----------------------------------------------------------------------------
(* Orders under each configuration of SPREAD *)

\* values of SPREAD in percent: below, at and above the bounds of (0, 1)
MarginSpreads == {-10, 0, SPREAD_PERCENT, 50, 100}

InitMargin == InitStore /\ tzOffset = 0 /\ spread \in MarginSpreads

NextMargin ==
    \/ \E p \in SeqProcs, body \in ReadBodies :
          counter < MaxIdL /\ CreateStart(p, body)
    \/ \E p \in SeqProcs : CreateStep(p)
    \/ \E a \in Admins, in \in ReadAdminInputs :
          SetStatusStart(a, in[1], in[2], in[3])
    \/ \E a \in Admins : SetStatusFind(a) \/ SetStatusSave(a)
    \/ WatchFind
    \/ \E receipt \in ReadReceipts : WatchReceipt(receipt)
    \/ WatchUpdate

SpecMargin == InitMargin /\ [][NextMargin]_vars

-----------------------------------------------------------------------------
(* The receipt watcher: orders with and without a reference, the chain *)

MaxIdW == 2

\* orders of 1 and of 1.5 WLD, of two identities, with the reference of the
\* same transaction or with none
WatchBodies ==
    {[ValidBody("n1") EXCEPT !.wld_tx_id = "tx1"],
     [ValidBody("n1") EXCEPT !.wld_tx_id = "tx1",
                             !.montoWLD = [k |-> "num", n |-> 15]],
     [ValidBody("n2") EXCEPT !.wld_tx_id = "tx1"],
     ValidBody("n1")}

\* an admin who moves the first order on while the watcher runs
WatchAdminInputs == GoodHeaders \X {"enviada", "pagada"} \X {1}

NextWatch ==
    \/ \E p \in SeqProcs, body \in WatchBodies :
          counter < MaxIdW /\ CreateStart(p, body)
    \/ \E p \in SeqProcs : CreateStep(p)
    \/ \E a \in Admins, in \in WatchAdminInputs :
          SetStatusStart(a, in[1], in[2], in[3])
    \/ \E a \in Admins : SetStatusFind(a) \/ SetStatusSave(a)
    \/ WatchFind
    \/ \E receipt \in Receipts : WatchReceipt(receipt)
    \/ WatchUpdate

SpecWatch == InitLife /\ [][NextWatch]_vars

\* successful receipts that hold the Transfer of 1 WLD from n1 to the
\* destination, alone or after another log of the token
LiveReceipts ==
    {[kind |-> "receipt", status |-> 1, logs |-> <<GoodLog>>],
     [kind |-> "receipt", status |-> 1, logs |-> <<ApprovalLog, GoodLog>>],
     [kind |-> "receipt", status |-> 1, logs |-> <<UndecodableLog, GoodLog>>]}

\* the transactions the orders refer to
LiveTxs == {"tx1", "tx2"}

\* the chain answers the watcher's getTransactionReceipt(txHash) with the
\* receipt of the transaction
ChainAnswers ==
    /\ watcher.pc = "receipt"
    /\ WatchReceipt(chain[watcher.pendientes[watcher.idx].wld_tx_id])

\* both transactions are on the chain and have succeeded
InitWatchLive ==
    /\ InitProcess
    /\ tzOffset = 0
    /\ spread = SPREAD_PERCENT
    /\ chain \in [LiveTxs -> LiveReceipts]

NextWatchLive ==
    \/ \E p \in SeqProcs, tx \in LiveTxs :
          counter < MaxIdW
          /\ CreateStart(p, [ValidBody("n1") EXCEPT !.wld_tx_id = tx])
    \/ \E p \in SeqProcs : CreateStep(p)
    \/ WatchFind
    \/ ChainAnswers
    \/ WatchUpdate

\* the 30-second timer starts a run whenever none is under way, the chain
\* answers every lookup, and the store completes every write
SpecWatchLive ==
    /\ InitWatchLive
    /\ [][NextWatchLive]_vars
    /\ WF_vars(WatchFind)
    /\ WF_vars(ChainAnswers)
    /\ WF_vars(WatchUpdate)

-----------------------------------------------------------------------------
(* Rate service: requests, the refresher and the upstream *)

SpecRate == InitLife /\ [][NextRate]_vars

\* what the process itself guarantees: the clock advances and a due timer
\* fires; nothing makes the upstream answer
SpecRateLive ==
    /\ InitLife
    /\ [][NextRate]_vars
    /\ WF_vars(RateTick)
    /\ \A r \in RefresherRuns : WF_vars(RefresherFire(r))

-----------------------------------------------------------------------------
(* Sessions: logins, the tokens they issue and the checks of them *)

\* the clock runs one instant past the expiry of a token issued at the start
NextAuth ==
    \/ \E pin \in Pins : LoginPost(pin)
    \/ \E token \in issued : AuthorizeIssued(token)
    \/ Tick(MaxTicks + 1)

SpecAuth == InitLife /\ [][NextAuth]_vars

-----------------------------------------------------------------------------
(* The tokens the API issues, presented to the privileged operations *)

\* every token a login or a wallet login has answered with
ApiTokens == issued \cup walletAuth.issued

\* the PIN of the operator and a wrong one
WalletPins == {[k |-> "str", v |-> "4321"], [k |-> "str", v |-> "0000"]}

NextWallet ==
    \/ \E pin \in WalletPins : LoginPost(pin)
    \/ \E body \in WalletBodies : WalletAuthComplete(body)
    \/ \E token \in ApiTokens : ListOrders(token)
    \/ \E p \in SeqProcs :
          counter < MaxIdL /\ CreateStart(p, ValidBody("n1"))
    \/ \E p \in SeqProcs : CreateStep(p)
    \/ \E a \in Admins, token \in ApiTokens :
          SetStatusStart(a, [scheme |-> "Bearer", token |-> token], "pagada", 1)
    \/ \E a \in Admins : SetStatusFind(a) \/ SetStatusSave(a)

SpecWallet == InitLife /\ [][NextWallet]_vars

-----------------------------------------------------------------------------
(* Pure functions applied to inputs drawn from bounded sets *)

\* upstream prices: every small one, and two of realistic size
CalcPrices == (0 .. MaxMilli) \cup {4000005, 4100000}

\* values of SPREAD in percent inside [0, 1)
CalcSpreads == {0, 15, 25, 99}

\* computeRateNow() on an upstream price, under a SPREAD
CalcRate(wldCop, s) ==
    /\ calc' = [fn |-> "computeRateNow",
                in |-> [wldCop |-> wldCop, s |-> s],
                out |-> PayloadOf(wldCop, s, 0)]
    /\ UNCHANGED <<now, tzOffset, mongoVars, fileVars, readVars, rateVars,
                   legVars, authVars, confVars>>

\* the week from Sunday 1970-01-04 to Saturday 1970-01-10
CalcDays == 3 .. 9

\* minutes of the day: midnight, around the two cut-offs, the evening
CalcMinutes ==
    {0, 14 * 60 + 59, 15 * 60, 16 * 60 + 59, 17 * 60, 18 * 60 + 59, 19 * 60,
     23 * 60 + 59}

\* calcularInventarioFecha(getColombiaNow()) when the Colombian wall clock
\* shows minute m of day n, on a server in zone tz
CalcInventario(n, m, tz) ==
    LET t == n * MinPerDay + m - COLOMBIA_UTC_OFFSET_MIN
    IN  calc' = [fn |-> "calcularInventarioFecha",
                 in |-> [day |-> n, minute |-> m, tz |-> tz],
                 out |-> [fecha |-> calcularInventarioFecha(
                                        getColombiaNow(t, tz), tz)]]
    /\ UNCHANGED <<now, tzOffset, mongoVars, fileVars, readVars, rateVars,
                   legVars, authVars, confVars>>

\* the moments a request arrives at: around the expiry of AdminToken
CalcTimes ==
    {StartTime, StartTime + TokenLife - 1, StartTime + TokenLife,
     StartTime + TokenLife + 1}

\* isAdminAuthenticated(req) on a request with header hdr arriving at t
CalcAuthorize(hdr, t) ==
    /\ calc' = [fn |-> "isAdminAuthenticated",
                in |-> [hdr |-> hdr, t |-> t],
                out |-> [ok |-> isAdminAuthenticated(hdr, t)]]
    /\ UNCHANGED <<now, tzOffset, mongoVars, fileVars, readVars, rateVars,
                   legVars, authVars, confVars>>

NextCalc ==
    \/ \E wldCop \in CalcPrices, s \in CalcSpreads : CalcRate(wldCop, s)
    \/ \E hdr \in GoodHeaders \cup BadHeaders, t \in CalcTimes :
          CalcAuthorize(hdr, t)
    \/ \E n \in CalcDays, m \in CalcMinutes, tz \in ServerZones :
          CalcInventario(n, m, tz)

SpecCalc == InitLife /\ [][NextCalc]_vars

-----------------------------------------------------------------------------
(* The file-store rate endpoint, its two upstreams and the clock *)

SpecFileRate == InitLife /\ [][NextFileRate]_vars

-----------------------------------------------------------------------------
(* Properties of order creation *)

\* the Colombian calendar day shown by a timestamp the server wrote
ColombiaDay(iso) == (iso - tzOffset) \div MinPerDay

\* the stored orders of identity n whose creation falls in Colombian day d
OrdersOnDay(n, d) ==
    {i \in DOMAIN orders :
        orders[i].nullifier = n /\ ColombiaDay(orders[i].creada_en) = d}

\* the stored orders of identity n created since the start of Colombian day d
OrdersSinceDay(n, d) ==
    {i \in DOMAIN orders :
        orders[i].nullifier = n /\ ColombiaDay(orders[i].creada_en) >= d}

\* a body whose montoCOP the store can hold: Number(montoCOP) is not NaN
Storable(body) == body.montoCOP.k \in {"num", "inf"}

\* a body that passes every validation of createOrder
PassesValidation(body) ==
    /\ body.banco \in {"Nequi", "Llave Bre-B"}
    /\ Truthy(body.verified)
    /\ body.nullifier # ""
    /\ body.montoWLD.k = "num"
    /\ body.montoWLD.n >= 10

C2_QuotaSequential ==
    \A p \in SeqProcs :
        (req[p].pc = "done" /\ PassesValidation(req[p].body))
        => LET r == req[p]
               own == IF r.resp.status = 200 THEN {r.resp.orden.id} ELSE {}
               before == OrdersOnDay(r.body.nullifier, ColombiaDay(r.ahora)) \ own
           IN  /\ Cardinality(before) < MAX_ORDERS_PER_NULLIFIER_PER_DAY
                     => r.resp.status = IF Storable(r.body) THEN 200 ELSE 500
               /\ Cardinality(before) >= MAX_ORDERS_PER_NULLIFIER_PER_DAY
                     => r.resp.status = 429 /\ Cardinality(before) = 3

C2_Witness ==
    \E p \in SeqProcs :
        /\ req[p].pc = "done"
        /\ req[p].resp.status = 429
        /\ Cardinality(OrdersOnDay(req[p].body.nullifier,
                                   ColombiaDay(req[p].ahora))) = 3
        /\ \E i \in DOMAIN orders :
              /\ orders[i].nullifier = req[p].body.nullifier
              /\ ColombiaDay(orders[i].creada_en) < ColombiaDay(req[p].ahora)

\* C3: the stored orders of one identity created in the same Colombian day
\* never exceed the daily maximum, whatever the interleaving of requests.
C3_QuotaNeverExceeded ==
    \A i \in DOMAIN orders :
        Cardinality(OrdersOnDay(orders[i].nullifier,
                                ColombiaDay(orders[i].creada_en)))
            <= MAX_ORDERS_PER_NULLIFIER_PER_DAY

\* C4: the window is per identity and per Colombian calendar day: the time a
\* request works with is the Colombian wall clock of its arrival, and a
\* request is answered 429 only when its own identity already has N orders
\* created since the start of the Colombian day of its arrival; the orders of
\* other identities and its own orders of earlier days are not counted.
C4_QuotaWindow ==
    [][\A p \in Procs :
          /\ (req[p].pc \in {"idle", "done"} /\ req'[p].pc = "find")
                => req'[p].ahora - tzOffset = now + (-300)
          /\ (req[p].pc = "find" /\ req'[p].pc = "done")
                => /\ req'[p].resp.status = 429
                   /\ Cardinality(OrdersSinceDay(req[p].body.nullifier,
                                                 ColombiaDay(req[p].ahora))) >= 3
      ]_vars

\* identity n1 is refused while n2 has orders of the same day and n1 has
\* orders of the day before: neither kind is among the three counted
C4_Witness ==
    \E p \in Procs :
        /\ req[p].pc = "done"
        /\ req[p].resp.status = 429
        /\ \E i \in DOMAIN orders :
              /\ orders[i].nullifier # req[p].body.nullifier
              /\ ColombiaDay(orders[i].creada_en) = ColombiaDay(req[p].ahora)
        /\ Cardinality(DOMAIN orders) = 4

\* C5: getNextOrderId never returns a value twice: each value it returns is
\* greater than every value returned before (those of the stored orders and
\* of the requests that hold an id and have not inserted yet), and the
\* counter never decreases.
ReturnedIds ==
    DOMAIN orders \cup {req[q].newId : q \in {x \in Procs : req[x].pc = "create"}}

C5_NextIdFresh ==
    [][/\ counter' >= counter
       /\ \A p \in Procs :
             (req[p].pc = "nextId" /\ req'[p].pc = "create")
             => \A v \in ReturnedIds : req'[p].newId > v
      ]_vars

C5_Witness ==
    \E p, q \in Procs :
        /\ p # q
        /\ req[p].pc = "create"
        /\ req[q].pc = "create"
        /\ req[p].newId # req[q].newId

-----------------------------------------------------------------------------
(* Properties of the file-store variant *)

\* C6: in the file-store variant no order id is given to two different
\* orders and the lastId of orders.json never decreases, whatever the
\* interleaving of order creations with the detection task.
C6_FileIdsNeverReused ==
    [][/\ fileStore'.lastId >= fileStore.lastId
       /\ \A i, j \in 1..Len(acked') : i # j => acked'[i] # acked'[j]
      ]_vars
-----------------------------------------------------------------------------
(* Properties of the order lifecycle *)

FiveStatuses == {"pendiente", "enviada", "recibida_wld", "pagada", "rechazada"}
Terminal == {"pagada", "rechazada"}

\* position in pending -> sent -> asset_received -> paid
Rank(st) ==
    CASE st = "pendiente" -> 1
      [] st = "enviada" -> 2
      [] st = "recibida_wld" -> 3
      [] st = "pagada" -> 4
      [] OTHER -> 5

\* a move the lifecycle allows: out of a non-terminal status, to a later one
\* or to rejected
Forward(from, to) ==
    /\ from \notin Terminal
    /\ to = "rechazada" \/ Rank(to) > Rank(from)

\* a header that does not carry an unexpired, well-formed token signed with
\* the secret and holding the admin role
Unauthorized(hdr, t) ==
    \/ hdr.scheme # "Bearer"
    \/ ~hdr.token.wellFormed
    \/ hdr.token.key # "secret"
    \/ hdr.token.exp <= t
    \/ hdr.token.role # "admin"

\* the step in which a set-status request is received and examined
Received(a) == adm[a].pc \in {"idle", "done"} /\ adm'[a] # adm[a]

\* C7 (as claimed): no operation moves an order to an earlier status or out
\* of paid or rejected.
C7_ForwardOnly ==
    [][\A i \in DOMAIN orders :
          orders'[i].estado # orders[i].estado
          => Forward(orders[i].estado, orders'[i].estado)
      ]_vars

\* C7 (amended): an order starts as pending and its status is always one of
\* the five values; a status is changed only by the save of an authorized
\* set-status request, to the target of that request whatever the status
\* was, or by the update of the receipt watcher, to asset_received, for an
\* order the watcher selected.
C7_StatusChanges ==
    [][\A i \in DOMAIN orders' :
          /\ orders'[i].estado \in FiveStatuses
          /\ i \notin DOMAIN orders => orders'[i].estado = "pendiente"
          /\ (i \in DOMAIN orders /\ orders'[i].estado # orders[i].estado)
             => \/ \E a \in Admins :
                      /\ adm[a].pc = "save" /\ adm'[a].pc = "done"
                      /\ adm[a].id = i
                      /\ ~Unauthorized(adm[a].hdr, now)
                      /\ orders'[i].estado = adm[a].estado
                \/ /\ watcher.pc = "update"
                   /\ watcher.pendientes[watcher.idx].id = i
                   /\ orders'[i].estado = "recibida_wld"
      ]_vars

\* an order that has left paid or rejected again
C7_Witness ==
    \E i \in DOMAIN orders :
        /\ orders[i].estado \notin Terminal
        /\ \E k \in 1..Len(orders[i].status_history) :
              orders[i].status_history[k].to \in Terminal

\* C8: an authorized set-status request with any of the five values as
\* target, for an existing order in any status, is not refused: it is
\* answered 200 with the order in the target status, and its save leaves the
\* stored order in the target status (the order being as the request read
\* it); the status the order has is never looked at.
C8_AnyTargetAccepted ==
    [][\A a \in Admins :
          /\ (Received(a) /\ ~Unauthorized(adm'[a].hdr, now)
                /\ adm'[a].estado \in FiveStatuses)
             => adm'[a].pc = "findOne"
          /\ (adm[a].pc = "findOne" /\ adm'[a] # adm[a]
                /\ adm[a].id \in DOMAIN orders)
             => adm'[a].pc = "save"
          /\ (adm[a].pc = "save" /\ adm'[a] # adm[a])
             => /\ adm'[a].resp.status = 200
                /\ adm'[a].resp.orden.id = adm[a].id
                /\ adm'[a].resp.orden.estado = adm[a].estado
                /\ orders[adm[a].id] = adm[a].loaded
                      => orders'[adm[a].id].estado = adm[a].estado
      ]_vars

\* a paid order put back to pending by a request answered 200
C8_Witness ==
    \E a \in Admins :
        /\ adm[a].pc = "done"
        /\ adm[a].resp.status = 200
        /\ adm[a].estado = "pendiente"
        /\ orders[adm[a].id].estado = "pendiente"
        /\ Len(orders[adm[a].id].status_history) = 3
        /\ orders[adm[a].id].status_history[2].to = "pagada"

\* C9: a set-status request whose token is missing, malformed, expired,
\* wrongly signed or without the admin role is answered 403 on receipt and
\* changes no order: status, actualizada_en and history stay as they were.
C9_Unauthorized403 ==
    [][\A a \in Admins :
          (Received(a) /\ Unauthorized(adm'[a].hdr, now))
          => /\ adm'[a].pc = "done"
             /\ adm'[a].resp.status = 403
             /\ orders' = orders
      ]_vars

\* a validly signed token of role wallet refused for an order that exists
C9_Witness ==
    \E a \in Admins :
        /\ adm[a].pc = "done"
        /\ adm[a].resp.status = 403
        /\ adm[a].hdr.scheme = "Bearer"
        /\ adm[a].hdr.token.role = "wallet"
        /\ adm[a].id \in DOMAIN orders

\* C10: an authorized set-status request whose target is not one of the
\* five values is answered 400 (whether or not the id exists); one with a
\* valid target for an id that is not in the store is answered 404; neither
\* changes any order.
C10_Invalid400Missing404 ==
    [][\A a \in Admins :
          /\ (Received(a) /\ ~Unauthorized(adm'[a].hdr, now)
                /\ adm'[a].estado \notin FiveStatuses)
             => /\ adm'[a].pc = "done"
                /\ adm'[a].resp.status = 400
                /\ orders' = orders
          /\ (adm[a].pc = "findOne" /\ adm'[a] # adm[a]
                /\ adm[a].id \notin DOMAIN orders)
             => /\ adm'[a].pc = "done"
                /\ adm'[a].resp.status = 404
                /\ orders' = orders
      ]_vars

\* a request for an id that is not there, answered 404 beside a stored order
C10_Witness ==
    \E a \in Admins :
        /\ adm[a].pc = "done"
        /\ adm[a].resp.status = 404
        /\ adm[a].id \notin DOMAIN orders
        /\ DOMAIN orders # {}

\* h is an initial part of g
IsPrefix(h, g) == Len(h) <= Len(g) /\ \A k \in 1..Len(h) : g[k] = h[k]

\* C11: status_history is append-only: in every step of the set-status
\* handler, the receipt watcher and order creation, in any interleaving,
\* every stored order stays stored and its history before the step is an
\* initial part of its history after it; a history has at least one entry
\* from the creation of its order on.
C11_HistoryAppendOnly ==
    [][/\ \A i \in DOMAIN orders :
             /\ i \in DOMAIN orders'
             /\ IsPrefix(orders[i].status_history, orders'[i].status_history)
       /\ \A i \in DOMAIN orders' : Len(orders'[i].status_history) >= 1
      ]_vars

\* the watcher has appended between the read and the save of a set-status
\* request, and both entries are in the history
C11_Witness ==
    \E i \in DOMAIN orders :
        /\ Len(orders[i].status_history) = 3
        /\ orders[i].status_history[2].to = "recibida_wld"
        /\ \E a \in Admins :
              /\ adm[a].pc = "done"
              /\ adm[a].resp.status = 200
              /\ adm[a].id = i
              /\ Len(adm[a].resp.orden.status_history) = 2

\* the step in which the save of a set-status request to paid returns
PaidSave(a) ==
    adm[a].pc = "save" /\ adm'[a].pc = "done" /\ adm[a].estado = "pagada"

Rejected(p) ==
    req[p].pc # "done" /\ req'[p].pc = "done"
        /\ req'[p].resp.status \in {400, 429}

\* C13: a createOrder request refused for its bank, its verification or
\* identity, its amount (400) or its quota (429) is refused before anything
\* is written: none of its steps changes the stored orders or the id
\* counter, so the next request that is given an id is given the one that
\* follows the counter as it stood before the refused request.
C13_RejectedNoEffect ==
    [][\A p \in SeqProcs :
          /\ (req[p].pc \in {"idle", "done", "find"} /\ req'[p] # req[p])
                => /\ orders' = orders
                   /\ counter' = counter
                   /\ req'[p].pc \in {"find", "nextId"}
                         \/ (req'[p].pc = "done"
                               /\ req'[p].resp.status \in {400, 429})
          /\ (req[p].pc \in {"idle", "done"} /\ req'[p] # req[p]
                /\ ~PassesValidation(req'[p].body))
                => req'[p].pc = "done" /\ req'[p].resp.status = 400
          /\ (req[p].pc = "nextId" /\ req'[p] # req[p])
                => req'[p].newId = counter + 1
      ]_vars

\* a request refused for its bank after two orders were created: the
\* counter still stands at the number of stored orders
C13_Witness ==
    \E p \in SeqProcs :
        /\ req[p].pc = "done"
        /\ req[p].resp.status = 400
        /\ req[p].body.banco = "UnknownBank"
        /\ counter = 2
        /\ DOMAIN orders = {1, 2}

-----------------------------------------------------------------------------
(* Properties of orders read back *)

\* montoWLD, montoCOP and ganancia_cop as a response shows them
Econ(o) == <<o.montoWLD, JsonNumber(o.montoCOP), o.ganancia_cop>>

\* C15: the order a createOrder request returns has the montoWLD, montoCOP
\* and ganancia_cop that are stored; no later step (status change, watcher
\* update, other creation) changes these fields of a stored order or
\* removes it; and GET /api/orders/:id of a stored id answers 200 with the
\* stored values -- so a fetch after the creation, whatever came between,
\* shows the three values the creation returned.
C15_EconomicRoundTrip ==
    [][/\ \A p \in SeqProcs :
             (req[p].pc = "create" /\ req'[p].pc = "done"
                /\ req'[p].resp.status = 200)
             => LET o == req'[p].resp.orden
                IN  o.id \in DOMAIN orders' /\ Econ(orders'[o.id]) = Econ(o)
       /\ \A i \in DOMAIN orders :
             i \in DOMAIN orders' /\ Econ(orders'[i]) = Econ(orders[i])
       /\ (getr.pc = "findOne" /\ getr'.pc = "done")
             => /\ getr.id \notin DOMAIN orders => getr'.resp.status = 404
                /\ getr.id \in DOMAIN orders
                   => /\ getr'.resp.status = 200
                      /\ getr'.resp.orden.id = getr.id
                      /\ Econ(getr'.resp.orden) = Econ(orders[getr.id])
                /\ \A p \in SeqProcs :
                      (req[p].pc = "done" /\ req[p].resp.status = 200
                         /\ req[p].resp.orden.id = getr.id)
                      => /\ getr'.resp.status = 200
                         /\ Econ(getr'.resp.orden) = Econ(req[p].resp.orden)
      ]_vars

\* the second order fetched after its status was changed twice since the
\* creation returned it
C15_Witness ==
    \E p \in SeqProcs :
        /\ req[p].pc = "done"
        /\ req[p].resp.status = 200
        /\ req[p].resp.orden.id = 2
        /\ getr.pc = "done"
        /\ getr.id = 2
        /\ getr.resp.status = 200
        /\ Len(getr.resp.orden.status_history) = 3
        /\ Econ(getr.resp.orden) # Econ(orders[1])

-----------------------------------------------------------------------------
(* Properties of the rate service *)

\* the step in which caller c makes a getCachedRate call
Called(c) == calls[c].pc \in {"idle", "done"} /\ calls'[c] # calls[c]

\* the step in which the upstream answers the call of request c
Answered(c) == calls[c].pc = "fetch" /\ calls'[c].pc = "done"

\* C16: a getCachedRate() call without force that request b makes within
\* the TTL window of the snapshot an earlier call without force returned to
\* request a (less than the TTL after that snapshot's update time) is
\* served from the cache with the very same snapshot, whatever refreshes
\* ran in between.
C16_IdempotentWithinTtl ==
    [][\A a, b \in RateClients :
          (/\ a # b
           /\ calls[a].pc = "done"
           /\ calls[a].result.kind = "ok"
           /\ ~calls[a].result.stale
           /\ Called(b)
           /\ rateNow - calls[a].result.seen < TtlTicks)
          => /\ calls'[b].pc = "done"
             /\ calls'[b].result.data = calls[a].result.data
      ]_vars

\* C17: a call is served from the cache (cache = true, no upstream
\* contacted) exactly when a snapshot is cached, the call is not forced and
\* the age of the snapshot is strictly below the TTL; in every other case
\* it goes to the upstream.
C17_CacheHitIffFresh ==
    [][\A c \in RateCallers :
          Called(c)
          => LET fresh == /\ cache.data # NoData
                          /\ ~calls'[c].force
                          /\ rateNow - cache.updatedAt < TtlTicks
             IN  IF fresh
                   THEN /\ calls'[c].pc = "done"
                        /\ calls'[c].result.cache
                        /\ calls'[c].result.data = cache.data
                   ELSE calls'[c].pc = "fetch"
      ]_vars

\* C18: a call made while nothing is cached and answered by a failing
\* upstream returns a snapshot with cache = false and raises no error: GET
\* /api/rate answers 200.
C18_ColdStartFallback ==
    [][\A c \in RateClients :
          (Answered(c) /\ calls'[c].up = "fail" /\ cache.data = NoData)
          => /\ calls'[c].result.kind = "ok"
             /\ ~calls'[c].result.cache
             /\ calls'[c].http = 200
      ]_vars

\* C19: when the upstream fails a call and a snapshot is cached, the call
\* returns that snapshot with stale = true (and cache = true) and GET
\* /api/rate answers 200; a call that ends changes _cache only by storing
\* the snapshot it computed under its own start time, so a failed one
\* leaves data and updatedAt as they were.
C19_StaleOnFailure ==
    [][/\ \A c \in RateClients :
             (Answered(c) /\ calls'[c].up = "fail" /\ cache.data # NoData)
             => /\ calls'[c].result.kind = "ok"
                /\ calls'[c].result.data = cache.data
                /\ calls'[c].result.stale
                /\ calls'[c].result.cache
                /\ calls'[c].http = 200
                /\ cache' = cache
       /\ \A c \in RateCallers :
             (calls[c].pc = "fetch" /\ calls'[c] # calls[c])
             => \/ cache' = cache
                \/ /\ cache'.updatedAt = calls[c].now
                   /\ cache'.data.fecha = rateNow
                   /\ c \in RateClients => calls'[c].up = "ok"
      ]_vars

\* a request answered with the stale snapshot of an older refresh
C19_Witness ==
    \E c \in RateClients :
        /\ calls[c].pc = "done"
        /\ calls[c].up = "fail"
        /\ calls[c].result.stale
        /\ calls[c].result.data = cache.data
        /\ calls[c].now - cache.updatedAt > TtlTicks

\* C20: once _cache holds a snapshot it holds one for ever, and from then
\* on no getCachedRate call ends with an error: GET /api/rate answers 500
\* only while nothing has ever been cached.
C20_NoErrorOnceCached ==
    [][/\ cache.data # NoData => cache'.data # NoData
       /\ \A c \in RateClients :
             (calls'[c].pc = "done" /\ calls'[c] # calls[c]
                /\ cache.data # NoData)
             => calls'[c].result.kind = "ok" /\ calls'[c].http = 200
       /\ \A c \in RateClients :
             (calls'[c].http = 500 /\ calls'[c] # calls[c])
             => cache.data = NoData /\ cache'.data = NoData
      ]_vars

\* one request was answered 500 on the cold cache; a later one, failed by
\* the upstream as well, is answered 200 from the snapshot cached since
C20_Witness ==
    \E c, d \in RateClients :
        /\ calls[c].pc = "done"
        /\ calls[c].http = 500
        /\ calls[d].pc = "done"
        /\ calls[d].up = "fail"
        /\ calls[d].http = 200
        /\ calls[d].now > calls[c].now

\* the getCachedRate calls that await the upstream
InFlight == {c \in RateCallers : calls[c].pc = "fetch"}

\* C21: single-flight: whatever the interleaving of GET /api/rate requests
\* and forced runs of the refresher, at most one getCachedRate call awaits
\* the upstream at any moment.
C21_SingleFlight == Cardinality(InFlight) <= 1

\* a leg whose answer carries a finite number
LiveBinance(a) == a.k = "json" /\ a.price.k = "num"
LiveFx(a) == a.k = "json" /\ a.cop.k = "num"

\* C22: a fresh answer of the file-store GET /api/rate for which exactly
\* one leg failed or gave a non-finite value is a 200 that carries the
\* fallback constant for that leg and the live value of the other leg.
C22_PerLegFallback ==
    (frate.pc = "done" /\ ~frate.cached)
    => /\ (LiveBinance(frate.binance) /\ ~LiveFx(frate.fx))
            => /\ frate.status = 200
               /\ frate.body.wld_usd = frate.binance.price
               /\ frate.body.usd_cop = [k |-> "num", n |-> FALLBACK_USD_COP]
       /\ (~LiveBinance(frate.binance) /\ LiveFx(frate.fx))
            => /\ frate.status = 200
               /\ frate.body.wld_usd = [k |-> "num", n |-> FALLBACK_WLD_USD]
               /\ frate.body.usd_cop = frate.fx.cop

\* C23: every payload of computeRateNow satisfies wld_cop_usuario =
\* wld_cop_bruto * (1 - SPREAD) exactly on the two-decimal values it
\* reports, for every price and every SPREAD in [0, 1).
C23_NetExact ==
    calc.fn = "computeRateNow"
    => calc.out.wld_cop_usuario * 100
          = calc.out.wld_cop_bruto * (100 - calc.in.s)

\* |a|
Abs(a) == IF a < 0 THEN -a ELSE a

\* C23 (amended): each field is rounded to two decimals from the unrounded
\* price, so the reported wld_cop_usuario is within one centavo of the
\* reported wld_cop_bruto * (1 - SPREAD) (never above the gross rate), and
\* equal to it when SPREAD is 0.
C23_NetWithinCentavo ==
    calc.fn = "computeRateNow"
    => /\ Abs(calc.out.wld_cop_usuario * 100
                - calc.out.wld_cop_bruto * (100 - calc.in.s)) <= 100
       /\ calc.out.wld_cop_usuario <= calc.out.wld_cop_bruto
       /\ calc.in.s = 0
             => calc.out.wld_cop_usuario = calc.out.wld_cop_bruto

\* a payload whose two rounded fields are not in the exact relation, for a
\* price of thousands of pesos
C23_Witness ==
    /\ calc.fn = "computeRateNow"
    /\ calc.in.wldCop > 1000000
    /\ calc.in.s = SPREAD_PERCENT
    /\ calc.out.wld_cop_usuario * 100
          # calc.out.wld_cop_bruto * (100 - calc.in.s)

\* the days the inventory date lies after the local day, as the rule has it
RollDays(weekday, m) ==
    CASE weekday = 0              -> 1
      [] weekday \in 1 .. 5       -> IF m >= 17 * 60 THEN 1 ELSE 0
      [] weekday = 6              -> IF m >= 15 * 60 THEN 2 ELSE 0

\* C24: for every Colombian weekday and minute of day the inventory date
\* is the next day on Sunday, the same day before 17:00 and the next day
\* from 17:00 on Monday to Friday, the same day before 15:00 and the Monday
\* two days later from 15:00 on Saturday.
C24_InventoryDate ==
    calc.fn = "calcularInventarioFecha"
    => calc.out.fecha
          = calc.in.day + RollDays((calc.in.day + 4) % 7, calc.in.minute)

\* C24 on a server whose zone is UTC
C24_InventoryDateUtc ==
    (calc.fn = "calcularInventarioFecha" /\ calc.in.tz = 0)
    => calc.out.fecha
          = calc.in.day + RollDays((calc.in.day + 4) % 7, calc.in.minute)

\* C25: isAdminAuthenticated answers every request with a boolean: true
\* exactly for a Bearer header whose token is well formed, signed with the
\* server's secret, not yet expired and of role admin; false without a
\* header, without the Bearer prefix, and for a malformed, badly signed,
\* expired or non-admin token.
C25_AuthorizeTotal ==
    calc.fn = "isAdminAuthenticated"
    => LET hdr == calc.in.hdr
       IN  /\ calc.out.ok \in BOOLEAN
           /\ calc.out.ok <=> /\ hdr.scheme = "Bearer"
                              /\ hdr.token.wellFormed
                              /\ hdr.token.key = ADMIN_JWT_SECRET
                              /\ calc.in.t < hdr.token.exp
                              /\ hdr.token.role = "admin"

\* a correctly signed, unexpired token of another role was refused
C25_Witness ==
    /\ calc.fn = "isAdminAuthenticated"
    /\ calc.in.hdr.scheme = "Bearer"
    /\ calc.in.hdr.token = [AdminToken EXCEPT !.role = "wallet"]
    /\ calc.in.t < calc.in.hdr.token.exp
    /\ ~calc.out.ok

\* the supplied PIN is the configured one, as a string or as its number
PinMatches(pin) == pin.k \in {"str", "num"} /\ StringOf(pin) = OPERATOR_PIN

\* C26: login answers with a token exactly when the supplied PIN equals the
\* configured one, and otherwise answers 401 and issues nothing; a token
\* login issued is accepted by the admin check at every moment before its
\* expiry, 24 hours after it was issued, and refused at every moment after.
C26_LoginAndExpiry ==
    [][/\ session' # session
          => IF PinMatches(session'.pin)
               THEN /\ session'.status = 200
                    /\ session'.token.role = "admin"
                    /\ session'.token.exp = now + TokenLife
                    /\ session'.token \in issued'
               ELSE /\ session'.status = 401
                    /\ session'.token = NoToken
                    /\ issued' = issued
       /\ issued' # issued => session'.status = 200
       /\ authz' # authz
          => /\ authz'.token \in issued
             /\ now < authz'.token.exp => authz'.ok
             /\ now > authz'.token.exp => ~authz'.ok
      ]_vars

\* a token issued to the numeric PIN was accepted later on and, after its
\* expiry, refused
C26_Witness ==
    /\ session.status = 200
    /\ session.pin.k = "num"
    /\ authz.token \in issued
    /\ authz.token # session.token
    /\ authz.t > authz.token.exp
    /\ ~authz.ok

\* C27: every getCachedRate call of a request that awaits the upstream
\* eventually ends, with a snapshot or an error, even if the upstream never
\* answers.
C27_EveryCallCompletes ==
    \A c \in RateClients : (calls[c].pc = "fetch") ~> (calls[c].pc = "done")

\* a run of the refresher awaits the upstream on a forced call made at t
ForcedRunAt(r, t) ==
    /\ calls[r].pc = "fetch"
    /\ calls[r].force
    /\ calls[r].now = t

\* C28: the refresher makes a forced call at start-up and one at every
\* multiple of the TTL after it: the timer stays set one TTL apart whatever
\* requests arrive and however earlier runs ended, time does not pass a due
\* timer, and each firing puts a forced call to the upstream in flight.
C28_RefresherPeriodic ==
    /\ \E r \in RefresherRuns : ForcedRunAt(r, 0)
    /\ nextFire = TtlTicks
    /\ [][/\ nextFire' \in {nextFire, nextFire + TtlTicks}
          /\ rateNow' # rateNow => rateNow < nextFire
          /\ nextFire' # nextFire
                => /\ rateNow = nextFire
                   /\ \E r \in RefresherRuns :
                         /\ calls[r].pc # "fetch"
                         /\ calls'[r].pc = "fetch"
                         /\ calls'[r].force
                         /\ calls'[r].now = nextFire
         ]_vars

\* the timer fired one TTL after a start-up run that failed, with no
\* request ever made, and its forced call is in flight
C28_Witness ==
    /\ cache.data = NoData
    /\ \A c \in RateClients : calls[c] = IdleCall
    /\ rateNow = TtlTicks
    /\ nextFire = 2 * TtlTicks
    /\ \E r \in RefresherRuns : ForcedRunAt(r, TtlTicks)

\* margin / (1 - margin) * amount in centavos, rounded to the centavo, for
\* a margin of s percent strictly inside (0, 1) and a finite amount; else 0
ProfitMargin(amount, s) ==
    IF amount.k = "num" /\ s > 0 /\ s < 100
      THEN RoundDiv(amount.n * CentsPerPeso * s, 100 - s)
      ELSE 0

\* C29: ganancia_cop of an order is set when the order is created, to
\* SPREAD / (1 - SPREAD) * montoCOP when SPREAD is strictly between 0 and 1
\* and montoCOP is finite, and to 0 otherwise; no set-status request and no
\* watcher update changes it afterwards.
C29_ProfitMarginFixed ==
    [][\A id \in DOMAIN orders' :
          IF id \in DOMAIN orders
            THEN orders'[id].ganancia_cop = orders[id].ganancia_cop
            ELSE orders'[id].ganancia_cop
                    = ProfitMargin(orders'[id].montoCOP, spread)
      ]_vars

\* an order of 1000 COP created under a SPREAD of 0.5 carries 1000.00 COP
\* after the watcher and an admin have changed its status
C29_Witness ==
    \E id \in DOMAIN orders :
        /\ spread = 50
        /\ orders[id].montoCOP = [k |-> "num", n |-> 1000]
        /\ orders[id].ganancia_cop = 1000 * CentsPerPeso
        /\ orders[id].estado = "pagada"
        /\ Len(orders[id].status_history) >= 3

\* C30: after any interleaving of order creation, set-status requests and
\* watcher updates, estado of every stored order is the "to" of the last
\* entry of its status_history.
C30_StatusIsLastEntry ==
    \A id \in DOMAIN orders :
        /\ Len(orders[id].status_history) > 0
        /\ orders[id].estado
              = orders[id].status_history[Len(orders[id].status_history)].to

-----------------------------------------------------------------------------
\* C31: the watcher's write never changes an order that is paid or rejected
\* at the moment of the write: when the run that selected a candidate comes to
\* its updateOne, the stored order is not pagada and not rechazada, however
\* the admin's set-status requests were interleaved with the run.
C31_WatcherOnlyPending ==
    [][(watcher.pc = "update" /\ watcher' # watcher /\ orders' # orders)
          => orders[watcher.pendientes[watcher.idx].id].estado
                \notin {"pagada", "rechazada"}
      ]_vars

-----------------------------------------------------------------------------
\* C32: in the file-store variant every order whose creation was answered to
\* the client is in orders.json, at every moment after the answer and so
\* after every later run of the detection task, also when the creation falls
\* between the task's readStore and its writeStore.
C32_AckedOrdersKept ==
    \A k \in 1..Len(acked) :
        \E i \in 1..Len(fileStore.orders) : fileStore.orders[i].id = acked[k]

-----------------------------------------------------------------------------
(* Properties of the receipt watcher *)

\* the transfer the order is waiting for, as an event of a receipt
IsTransferFor(log, o) ==
    /\ toLowerCase(log.address) = toLowerCase(WLD_TOKEN_ADDRESS)
    /\ log.name = "Transfer"
    /\ toLowerCase(log.to) = toLowerCase(WALLET_DESTINO)
    /\ log.value * AmountScale = o.montoWLD * UnitsPerWLD
    /\ o.nullifier # "" => toLowerCase(log.from) = toLowerCase(o.nullifier)

Confirms(receipt, o) ==
    /\ o.wld_tx_id # NULL
    /\ receipt.kind = "receipt"
    /\ receipt.status = 1
    /\ \E k \in 1..Len(receipt.logs) : IsTransferFor(receipt.logs[k], o)

\* C33: the watcher writes recibida_wld to an order only when the order has a
\* wld_tx_id and the receipt it got for it has status 1 and holds a Transfer
\* log of WLD_TOKEN_ADDRESS to WALLET_DESTINO for the order's montoWLD in
\* token units, from the order's nullifier when that is set; the step that
\* looks at a receipt changes no order, and goes on to the write only for
\* such a receipt.
C33_ConfirmedOnlyByTransfer ==
    [][/\ (watcher.pc = "update" /\ watcher' # watcher /\ orders' # orders)
            => LET id == watcher.pendientes[watcher.idx].id
               IN  /\ Confirms(watcher.receipt, orders[id])
                   /\ orders'[id].estado = "recibida_wld"
                   /\ \A j \in DOMAIN orders \ {id} : orders'[j] = orders[j]
       /\ (watcher.pc = "receipt" /\ watcher' # watcher)
            => /\ orders' = orders
               /\ watcher'.pc = "update"
                    => Confirms(watcher'.receipt,
                                orders[watcher.pendientes[watcher.idx].id])
       /\ (watcher.pc = "idle" /\ watcher' # watcher)
            => /\ orders' = orders
               /\ \A k \in 1..Len(watcher'.pendientes) :
                     watcher'.pendientes[k].wld_tx_id # NULL
      ]_vars

\* an order of 1.5 WLD confirmed by the watcher while an order of 1 WLD with
\* the same reference is still pending
C33_Witness ==
    \E i, j \in DOMAIN orders :
        /\ orders[i].montoWLD = 15
        /\ orders[i].estado = "recibida_wld"
        /\ orders[j].montoWLD = 10
        /\ orders[j].wld_tx_id # NULL
        /\ orders[j].estado = "pendiente"
        /\ watcher.pc = "idle"

\* the order has been written by the watcher (no admin of this
\* specification asks for recibida_wld)
WatcherConfirmed(o) ==
    \E k \in 1..Len(o.status_history) :
        o.status_history[k].to = "recibida_wld"

\* C34: one transaction confirms at most one order: no two stored orders
\* that the watcher has set to recibida_wld carry the same wld_tx_id,
\* whatever references the clients supplied at creation.
C34_OneOrderPerTransaction ==
    \A i, j \in DOMAIN orders :
        (i # j /\ WatcherConfirmed(orders[i]) /\ WatcherConfirmed(orders[j]))
            => orders[i].wld_tx_id # orders[j].wld_tx_id

-----------------------------------------------------------------------------
\* C35: in the file-store variant no two orders of orders.json have the same
\* tx_hash other than null, after any number of detection runs, overlapping
\* or not, of one process; a transfer whose amount is that of several
\* pending orders of the same run is given to one of them only.
C35_TransferMatchedOnce ==
    \A i, j \in 1..Len(fileStore.orders) :
        (i # j /\ fileStore.orders[i].tx_hash # NULL)
            => fileStore.orders[i].tx_hash # fileStore.orders[j].tx_hash

\* two orders of the same amount, both created before the run that wrote:
\* the run gave the transfer to one and left the other pending
C35_Witness ==
    \E i, j \in 1..Len(fileStore.orders) :
        LET a == fileStore.orders[i]
            b == fileStore.orders[j]
        IN  /\ a.montoWLD = b.montoWLD
            /\ a.tx_hash = "tx1"
            /\ a.estado = "recibida_wld"
            /\ b.tx_hash = NULL
            /\ b.estado = "pendiente"
            /\ a.creada_en < a.actualizada_en
            /\ b.creada_en < a.actualizada_en
            /\ processedTxs = {"tx1"}

-----------------------------------------------------------------------------
\* C36: when refreshes overlap, _cache.updatedAt never decreases, and the
\* snapshot in _cache.data is never replaced by one whose fecha is older
\* than that of the snapshot it replaces.
C36_CacheTimeMonotonic ==
    [][/\ cache'.updatedAt >= cache.updatedAt
       /\ (cache.data # NoData /\ cache'.data # cache.data)
            => cache'.data.fecha >= cache.data.fecha
      ]_vars

-----------------------------------------------------------------------------
\* the paths a status change writes
StatusPaths == {"estado", "status_history", "actualizada_en"}

\* C37: no step of a set-status request or of the watcher changes, in a
\* stored order, id, nullifier, banco, titular, numero, montoWLD, montoCOP,
\* ganancia_cop, inventario_fecha or creada_en: of the fields of an order only
\* estado, status_history and actualizada_en ever change, and no order is
\* removed.
C37_StatusChangeFrame ==
    [][\A id \in DOMAIN orders :
          /\ id \in DOMAIN orders'
          /\ DOMAIN orders'[id] = DOMAIN orders[id]
          /\ \A f \in DOMAIN orders[id] \ StatusPaths :
                orders'[id][f] = orders[id][f]
      ]_vars

\* an order the watcher has confirmed and an admin has then paid, with the
\* fields of its creation
C37_Witness ==
    \E id \in DOMAIN orders :
        LET o == orders[id]
        IN  /\ Len(o.status_history) = 3
            /\ o.status_history[2].to = "recibida_wld"
            /\ o.status_history[3].to = "pagada"
            /\ o.estado = "pagada"
            /\ o.id = id
            /\ o.creada_en = o.status_history[1].at
            /\ o.actualizada_en = o.status_history[3].at
            /\ o.titular = "Ana"
            /\ o.numero = "3001234567"
            /\ o.inventario_fecha = calcularInventarioFecha(o.creada_en, 0)
            /\ {"nullifier", "banco", "montoWLD", "montoCOP", "ganancia_cop"}
                  \subseteq DOMAIN o

-----------------------------------------------------------------------------
\* a request that presented the token as its Bearer credential
Bearer(token) == [scheme |-> "Bearer", token |-> token]

\* C38: a token issued by wallet-auth/complete never authorizes a privileged
\* operation: the listing of all orders and set-status answer 403 to a
\* request that bears it and no order is read or changed for it; a token of
\* the API that the admin check accepts was issued by a login, and a login
\* issues one only for the PIN of the operator.
C38_WalletTokenNeverAdmin ==
    [][/\ \A token \in walletAuth'.issued :
             /\ token.role = "wallet"
             /\ ~isAdminAuthenticated(Bearer(token), now')
             /\ listing'.token = token => listing'.status = 403
             /\ \A a \in Admins :
                   adm'[a].hdr = Bearer(token)
                      => /\ adm'[a].pc = "done"
                         /\ adm'[a].resp.status = 403
                         /\ adm'[a] # adm[a] => orders' = orders
       /\ \A token \in issued' \cup walletAuth'.issued :
             isAdminAuthenticated(Bearer(token), now')
                => token \in issued' /\ token.role = "admin"
       /\ issued' # issued
             => /\ PinMatches(session'.pin)
                /\ session'.status = 200
                /\ issued' = issued \cup {session'.token}
      ]_vars

\* a wallet login has answered 200 with a token that is not expired; the
\* listing and the set-status of the stored pending order, both asked with
\* it, were answered 403
C38_Witness ==
    /\ walletAuth.status = 200
    /\ walletAuth.token \in walletAuth.issued
    /\ walletAuth.token.exp > now
    /\ listing.token = walletAuth.token
    /\ listing.status = 403
    /\ \E a \in Admins :
          /\ adm[a].hdr = Bearer(walletAuth.token)
          /\ adm[a].resp.status = 403
    /\ 1 \in DOMAIN orders
    /\ orders[1].estado = "pendiente"
    /\ issued # {}

-----------------------------------------------------------------------------
\* C39: liveness of the watcher. An order that carries a wld_tx_id and is
\* pendiente or enviada, on a chain that answers every lookup of its
\* transaction with a successful receipt holding the matching Transfer, does
\* not stay pendiente or enviada for ever: with the watcher run again and
\* again it becomes recibida_wld.
C39_WatcherEventuallyConfirms ==
    \A id \in 1..MaxIdW :
        (/\ id \in DOMAIN orders
         /\ orders[id].wld_tx_id # NULL
         /\ orders[id].estado \in {"pendiente", "enviada"})
            ~> (/\ id \in DOMAIN orders
                /\ orders[id].estado \notin {"pendiente", "enviada"})

====
